---------------------------- MODULE Spec2Model ----------------------------
(***************************************************************************)
(* VoxParaguay 2026 - presence registry and Least-Connections assignment   *)
(* engine (backend/app/utils/redis_agent_manager.py), modelled over the    *)
(* keys it keeps in the shared store.                                      *)
(*                                                                         *)
(* Store keys and the variables that model them:                           *)
(*   agent:{id}          hash     agentHash[id]                            *)
(*   agent:status:{id}   string   statusKey[id]                            *)
(*   agent:load:{id}     counter  loadKey[id]   (<<>> = key absent)        *)
(*   agent:metrics:{id}  hash     metrics[id]   (conversations_completed)  *)
(*   agents:online       set      online                                   *)
(*   agents:region:{r}   set      regionIdx[r]                             *)
(*   conversation:{id}   hash     conv[id]                                 *)
(*   agent:events        channel  lastEvent (the message last published)   *)
(*                                                                         *)
(* Payload that no code path reads back (agent name, channel, login_time,  *)
(* logout_time, assigned_at, completed_at, the hash's current_connections  *)
(* field, which every reader overwrites with the load counter) is left out *)
(* of the hashes; last_activity is kept: cleanup_stale_agents reads it.    *)
(* The wall clock is the logical clock `now`.                              *)
(*                                                                         *)
(* Sentiment aggregation (backend/app/services/sentiment_service.py):      *)
(*   sentiment:dept:{d}:sum    float    sentSum[d]   (absent reads as 0)   *)
(*   sentiment:dept:{d}:count  counter  sentCount[d] (absent reads as 0)   *)
(*   sentiment:current         hash     sentCurrent[d] (<<>> = no field)   *)
(*   sentiment:history:{d}     list     sentHistory[d], newest first       *)
(*   sentiment:updates         channel  sentEvent (the message last sent)  *)
(* Scores and averages are counted in units of 10^-4, the precision of     *)
(* round(new_average, 4). A history entry is its score: the timestamp and  *)
(* the opaque metadata of an entry are never read back by the service.     *)
(* Each instance keeps the observer sockets registered with it (clients);  *)
(* inbox[w] is what the peer of socket w has received.                     *)
(*                                                                         *)
(* Agent stream (backend/app/api/routes/agents.py): the connection table   *)
(* of ConnectionManager (active, running) and one handler of               *)
(* websocket_endpoint per connection (hpc, hloc); alive holds the          *)
(* connections whose peer is still there.                                  *)
(***************************************************************************)
EXTENDS Integers, Sequences, FiniteSets, TLC

\* ------------------------------------------------------------------ bounds
MaxLoad == 2
MaxMetric == 2
MaxTime == 1
MaxCalls == 5
MaxConcCalls == 4
MaxSentCalls == 4
MaxStreamCalls == 2
MaxOrderCalls == 2
MaxOrderRecords == 1
\* SentimentService.MAX_HISTORY (100 in the source), scaled down so that a
\* run records more samples than the history keeps.
MAX_HISTORY == 2

\* ------------------------------------------------------------------ inputs
Agents == {"a1", "a2"}
\* The agent id that is the empty string: AgentLoginRequest declares agent_id
\* as a plain str, and every key of the store is built from it by format().
EmptyId == ""
AgentIds == Agents \cup {EmptyId}
Convs == {"c1"}
Regions == {"Central", "Itapua"}
None == "None"

\* class AgentStatus
AVAILABLE == "disponible"
BUSY == "ocupado"
BREAK == "descanso"
OFFLINE == "desconectado"
AgentStatus == {AVAILABLE, BUSY, BREAK, OFFLINE}

\* Optional[List[str]]: omitted (None) or a given list, read as a set since
\* the code only tests membership (`skill in agent_skills`).
Omitted == [given |-> FALSE, list |-> {}]
Given(s) == [given |-> TRUE, list |-> s]
LoginSkills == {Omitted, Given({}), Given({"voice"})}
RequiredSkills == {Omitted, Given({"voice", "whatsapp"})}
\* Optional[str] region: None or a region name.
LoginRegions == Regions \cup {None}
\* The regions agents log in with under Spec; calls may ask for any region.
SpecRegions == {None, "Central"}
SweepSkills == {Omitted}
\* The API instances (coroutines) whose store operations interleave.
Procs == {"p1", "p2"}
Timeouts == 0..MaxTime

\* PARAGUAY_DEPARTMENTS, cut to two codes; "PY-XX" is a code outside it.
PARAGUAY_DEPARTMENTS == {"PY-ASU", "PY-1"}
DepartmentIds == PARAGUAY_DEPARTMENTS \cup {"PY-XX"}
\* One score unit is 10^-4: 10000 is the score 1.0.
Unit == 10000
\* -0.5, 0.5 and 1.0 are scores of the range; 1.5 is outside it.
Scores == {-5000, 5000, 10000, 15000}
Limits == 0..2
\* The process instances and the observer connections made to each.
Instances == {"i1", "i2"}
Sockets == {"w1", "w2"}
InstanceOf(w) == IF w = "w1" THEN "i1" ELSE "i2"
\* The instance that takes the calls, and its observer, when the sentiment
\* API is called one call at a time.
SentInstances == {"i1"}
SentSockets == {"w1"}
\* The connections made to the agent stream and the agent id each one gives:
\* s3 is a second connection of agent a1.
AgentSockets == {"s1", "s2", "s3"}
AgentOf(s) == IF s = "s2" THEN "a2" ELSE "a1"

\* ------------------------------------------------------------------ state
VARIABLES agentHash, statusKey, loadKey, metrics, online, regionIdx, conv,
          lastEvent, now, supplied, last, calls, pc, loc

VARIABLES sentSum, sentCount, sentCurrent, sentHistory, sentEvent,
          clients, inbox, open, samples, slast, scalls, spc, sloc, wpc

sentStore == <<sentSum, sentCount, sentCurrent, sentHistory, sentEvent>>
observers == <<clients, inbox, open>>
coros == <<spc, sloc, wpc>>

\* The agent stream of one instance (ConnectionManager and the handlers of
\* websocket_endpoint, backend/app/api/routes/agents.py).
VARIABLES active, running, alive, hpc, hloc
connVars == <<active, running, alive, hpc, hloc>>

\* The key rotation manager (KeyRotationManager, backend/app/utils/security.py):
\* keyring is _keys, the key material of each version, and klast the last
\* call made on the manager with what it returned.
VARIABLES keyring, klast
keyVars == <<keyring, klast>>

\* The listener of the agent stream (ConnectionManager._listen_redis_events):
\* task is where the coroutine held by _redis_listener_task stands ("none":
\* no task), tasks the number of listener coroutines alive, chan the messages
\* the subscription to "agent:events" holds unread, log what the loop did
\* with each message it read, and lcalls the calls and publications counted.
VARIABLES task, tasks, chan, log, lcalls
lisVars == <<task, tasks, chan, log, lcalls>>
sentVars == <<sentSum, sentCount, sentCurrent, sentHistory, sentEvent,
              clients, inbox, open, samples, slast, scalls, spc, sloc, wpc>>

store == <<agentHash, statusKey, loadKey, metrics, online, regionIdx, conv, lastEvent>>
procs == <<pc, loc>>
vars == <<agentHash, statusKey, loadKey, metrics, online, regionIdx, conv,
          lastEvent, now, supplied, last, calls, pc, loc,
          sentSum, sentCount, sentCurrent, sentHistory, sentEvent,
          clients, inbox, open, samples, slast, scalls, spc, sloc, wpc,
          active, running, alive, hpc, hloc, keyring, klast,
          task, tasks, chan, log, lcalls>>
\* The variables of the presence registry, the assignment engine and the
\* agent stream.
agentVars == <<agentHash, statusKey, loadKey, metrics, online, regionIdx, conv,
               lastEvent, now, supplied, last, calls, pc, loc,
               active, running, alive, hpc, hloc>>

NoHash == [exists |-> FALSE, status |-> None, region |-> None, skills |-> {},
           last_activity |-> 0]
NoConv == [exists |-> FALSE, agent_id |-> None, status |-> None]
NoEvent == [type |-> None, agent_id |-> None, conversation_id |-> None]
\* The locals of a coroutine that is not inside a call.
IdleLoc == [agent |-> None, conv |-> None, region |-> None, req |-> Omitted,
            todo |-> {}, cur |-> None, cands |-> <<>>, load |-> 0, sel |-> None]
NoCall == [op |-> None, agent |-> None, conv |-> None, region |-> None,
           req |-> Omitted, status |-> None, ok |-> FALSE, ret |-> None,
           rep |-> FALSE]

\* The record of the call just completed; rep says that the call before it
\* was the same operation with the same arguments.
Call(op, a, c, r, q, s, ok, ret) ==
    [op |-> op, agent |-> a, conv |-> c, region |-> r, req |-> q, status |-> s,
     ok |-> ok, ret |-> ret,
     rep |-> /\ last.op = op /\ last.agent = a /\ last.conv = c
             /\ last.region = r /\ last.req = q /\ last.status = s]

\* ------------------------------------------------------------------ helpers
\* int(await r.get(load key) or 0)
GetLoad(a) == IF loadKey[a] = <<>> THEN 0 ELSE loadKey[a][1]

\* skills or ["voice", "whatsapp"]
SkillsOrDefault(skills) ==
    IF skills.given /\ skills.list # {} THEN skills.list ELSE {"voice", "whatsapp"}

Event(type, a, c) == [type |-> type, agent_id |-> a, conversation_id |-> c]

\* origin is the instance whose record call produced the message.
NoSentEvent == [type |-> None, department_id |-> None, sentiment_score |-> 0,
                average |-> 0, total_count |-> 0, origin |-> None]
\* The locals of ConnectionManager.broadcast inside a handler: the position
\* of the dict iterator and the dict's size when the iteration began, the
\* connection whose send_json is awaited, the `disconnected` list, then the
\* connections the message went to, the connections whose send raised and
\* the connections the table held when the broadcast began.
NoBroadcast == [idx |-> 0, size |-> 0, target |-> None, agent_id |-> None,
                disconnected |-> <<>>, sent |-> {}, raised |-> {},
                began |-> {}, then |-> None]
\* The locals of a record coroutine that is not inside a call.
IdleSloc == [inst |-> None, department_id |-> None, score |-> 0, new_sum |-> 0,
             new_count |-> 0, new_average |-> 0]
NoSentCall == [op |-> None, department_id |-> None, score |-> 0, limit |-> 0,
               ok |-> FALSE, average |-> 0, total_count |-> 0, history |-> <<>>,
               average_none |-> FALSE]

\* ---- key rotation: values
CURRENT_VERSION == "v2"
\* The versions __init__ loads a key for (v2 falls back to the v1 key).
Versions == {"v1", "v2"}
Plaintexts == {"", "a", "b"}
Nonces == {1, 2}
ERROR_DECRYPTION == "ERROR_DECRYPTION"
\* A string is a sequence of pieces. A piece is a run of characters given by
\* its text, or the base64 text of nonce + AESGCM(key).encrypt(nonce, pt).
Tok(ch) == [ch |-> ch, key |-> None, nonce |-> 0, pt |-> ""]
B64(k, n, p) == [ch |-> "b64", key |-> k, nonce |-> n, pt |-> p]
Colon == Tok(":")
\* The pieces made of characters of the base64 alphabet.
Base64Alphabet == {"v1", "v2", "v99", "zz", "b64"}
NoKeyCall == [op |-> None, plaintext |-> "", version |-> None, input |-> <<>>,
              items |-> <<>>, raised |-> FALSE, cipher |-> <<>>, text |-> "",
              out |-> <<>>, flag |-> FALSE]

Init ==
    /\ agentHash = [a \in AgentIds |-> NoHash]
    /\ statusKey = [a \in AgentIds |-> None]
    /\ loadKey = [a \in AgentIds |-> <<>>]
    /\ metrics = [a \in AgentIds |-> 0]
    /\ online = {}
    /\ regionIdx = [r \in Regions |-> {}]
    /\ conv = [c \in Convs |-> NoConv]
    /\ lastEvent = NoEvent
    /\ now = 0
    /\ supplied = [a \in AgentIds |-> Omitted]
    /\ last = NoCall
    /\ calls = 0
    /\ pc = [p \in Procs |-> "idle"]
    /\ loc = [p \in Procs |-> IdleLoc]
    /\ sentSum = [d \in PARAGUAY_DEPARTMENTS |-> 0]
    /\ sentCount = [d \in PARAGUAY_DEPARTMENTS |-> 0]
    /\ sentCurrent = [d \in PARAGUAY_DEPARTMENTS |-> <<>>]
    /\ sentHistory = [d \in PARAGUAY_DEPARTMENTS |-> <<>>]
    /\ sentEvent = NoSentEvent
    /\ clients = [i \in Instances |-> {}]
    /\ inbox = [w \in Sockets |-> <<>>]
    /\ open = {}
    /\ samples = [d \in PARAGUAY_DEPARTMENTS |-> <<>>]
    /\ slast = NoSentCall
    /\ scalls = 0
    /\ spc = [p \in Procs |-> "idle"]
    /\ sloc = [p \in Procs |-> IdleSloc]
    /\ wpc = [w \in Sockets |-> "closed"]
    /\ active = <<>>
    /\ running = FALSE
    /\ alive = {}
    /\ hpc = [s \in AgentSockets |-> "closed"]
    /\ hloc = [s \in AgentSockets |-> NoBroadcast]
    /\ keyring = [v \in Versions |-> None]
    /\ klast = NoKeyCall
    /\ task = "none"
    /\ tasks = 0
    /\ chan = <<>>
    /\ log = <<>>
    /\ lcalls = 0

\* ------------------------------------------------------------------ login
AgentLogin(a, region, skills) ==
    /\ agentHash' = [agentHash EXCEPT ![a] =
            [exists |-> TRUE, status |-> AVAILABLE, region |-> region,
             skills |-> SkillsOrDefault(skills), last_activity |-> now]]
    /\ statusKey' = [statusKey EXCEPT ![a] = AVAILABLE]
    /\ loadKey' = [loadKey EXCEPT ![a] = <<0>>]
    /\ online' = online \cup {a}
    /\ regionIdx' = IF region # None
                    THEN [regionIdx EXCEPT ![region] = @ \cup {a}]
                    ELSE regionIdx
    /\ lastEvent' = Event("login", a, None)
    /\ supplied' = [supplied EXCEPT ![a] = skills]
    /\ last' = Call("login", a, None, region, skills, None, TRUE, a)
    /\ UNCHANGED <<metrics, conv, now>>

\* ------------------------------------------------------------------ logout
\* A logout that refuses an agent already taken off the online set.
AgentKnown_OnlineOnly(a) == agentHash[a].exists /\ a \in online

\* A lookup that finds a record for every agent id.
AgentKnown_Always(a) == TRUE

\* agent_data = hgetall(agent:{id}); `if not agent_data: return False`
AgentKnown(a) == agentHash[a].exists

\* The store after the writes of agent_logout (lines 130-149).
LogoutStatusKey(sk, a) == [sk EXCEPT ![a] = OFFLINE]
LogoutHash(h, a) == [h EXCEPT ![a].status = OFFLINE]
\* A logout that forgets the srem on the online set.
LogoutOnline_Kept(on, a) == on

LogoutOnline(on, a) == on \ {a}
\* region = agent_data.get("region"); if region: srem(agents:region:{region})
LogoutRegionIdx(ri, h, a) ==
    IF h[a].region # None
    THEN [ri EXCEPT ![h[a].region] = @ \ {a}]
    ELSE ri

AgentLogout(a) ==
    IF ~AgentKnown(a)
    THEN /\ last' = Call("logout", a, None, None, Omitted, None, FALSE, None)
         /\ UNCHANGED <<store, now, supplied>>
    ELSE /\ statusKey' = LogoutStatusKey(statusKey, a)
         /\ agentHash' = LogoutHash(agentHash, a)
         /\ online' = LogoutOnline(online, a)
         /\ regionIdx' = LogoutRegionIdx(regionIdx, agentHash, a)
         /\ lastEvent' = Event("logout", a, None)
         /\ last' = Call("logout", a, None, None, Omitted, None, TRUE, None)
         /\ UNCHANGED <<loadKey, metrics, conv, now, supplied>>

\* ------------------------------------------------------------------ setStatus
\* A status update that also drops an agent going OFFLINE from the online
\* index and clears its load counter.
UpdateAgentStatus_Cleaning(a, s) ==
    IF ~AgentKnown(a)
    THEN /\ last' = Call("setStatus", a, None, None, Omitted, s, FALSE, None)
         /\ UNCHANGED <<store, now, supplied>>
    ELSE /\ statusKey' = [statusKey EXCEPT ![a] = s]
         /\ agentHash' = [agentHash EXCEPT ![a].status = s,
                                           ![a].last_activity = now]
         /\ online' = IF s = OFFLINE THEN online \ {a} ELSE online
         /\ loadKey' = IF s = OFFLINE THEN [loadKey EXCEPT ![a] = <<0>>] ELSE loadKey
         /\ lastEvent' = Event("status_change", a, None)
         /\ last' = Call("setStatus", a, None, None, Omitted, s, TRUE, None)
         /\ UNCHANGED <<metrics, regionIdx, conv, now, supplied>>

UpdateAgentStatus(a, s) ==
    IF ~AgentKnown(a)
    THEN /\ last' = Call("setStatus", a, None, None, Omitted, s, FALSE, None)
         /\ UNCHANGED <<store, now, supplied>>
    ELSE /\ statusKey' = [statusKey EXCEPT ![a] = s]
         /\ agentHash' = [agentHash EXCEPT ![a].status = s,
                                           ![a].last_activity = now]
         /\ lastEvent' = Event("status_change", a, None)
         /\ last' = Call("setStatus", a, None, None, Omitted, s, TRUE, None)
         /\ UNCHANGED <<loadKey, metrics, online, regionIdx, conv, now, supplied>>

\* ------------------------------------------------------------------ assign
\* An assignment that stays inside the region asked for.
CandidatePool_NoFallback(region) ==
    IF region # None THEN regionIdx[region] ELSE online

\* A pool that adds the online set to the region's index.
CandidatePool_WithOnline(region) ==
    IF region # None THEN regionIdx[region] \cup online ELSE online

\* Lines 209-217: the region's index if a region is given and its index has a
\* member, else the online set.
CandidatePool(region) ==
    IF region # None /\ regionIdx[region] # {}
    THEN regionIdx[region]
    ELSE online

\* `for agent_id in agent_ids` visits the set in an order the code does not
\* control: every enumeration of the pool is a possible iteration order.
Orderings(S) ==
    {f \in [1..Cardinality(S) -> S] : \A i, j \in 1..Cardinality(S) : f[i] = f[j] => i = j}

\* Lines 231-236: all(skill in agent_skills for skill in required_skills);
\* a missing hash reads as skills "[]".
SkillsMatch(req, a) ==
    (req.given /\ req.list # {}) => req.list \subseteq agentHash[a].skills

\* Lines 226-236: the candidate passes the status and the skills filter.
Eligible(a, req) == statusKey[a] = AVAILABLE /\ SkillsMatch(req, a)

\* Lines 223-240: the (agent_id, load) pairs of the eligible agents, in
\* iteration order.
RECURSIVE Candidates(_, _)
Candidates(ord, req) ==
    IF ord = <<>> THEN <<>>
    ELSE LET a == Head(ord)
             rest == Candidates(Tail(ord), req)
         IN IF Eligible(a, req) THEN <<<<a, GetLoad(a)>>>> \o rest ELSE rest

\* Line 246: candidates.sort(key=lambda x: x[1]) - a stable sort by load.
RECURSIVE InsertByLoad(_, _)
InsertByLoad(sorted, x) ==
    IF sorted = <<>> THEN <<x>>
    ELSE IF sorted[Len(sorted)][2] <= x[2] THEN Append(sorted, x)
    ELSE Append(InsertByLoad(SubSeq(sorted, 1, Len(sorted) - 1), x), sorted[Len(sorted)])

RECURSIVE SortByLoad(_)
SortByLoad(cs) ==
    IF cs = <<>> THEN <<>>
    ELSE InsertByLoad(SortByLoad(SubSeq(cs, 1, Len(cs) - 1)), cs[Len(cs)])

\* A selection that skips the sort and takes the first candidate found.
SelectAgent_Unsorted(cs) == cs[1][1]

\* Line 249: selected_agent_id = candidates[0][0], after the sort.
SelectAgent(cs) == SortByLoad(cs)[1][1]

\* A None return that first publishes an event about the conversation.
AssignNone_Published(c, region, req) ==
    /\ last' = Call("assign", None, c, region, req, None, FALSE, None)
    /\ lastEvent' = Event("conversation_unassigned", None, c)
    /\ UNCHANGED <<agentHash, statusKey, loadKey, metrics, online, regionIdx, conv,
                   now, supplied>>

\* Lines 219-220 and 242-243: return None, before any write of the call.
AssignNone(c, region, req) ==
    /\ last' = Call("assign", None, c, region, req, None, FALSE, None)
    /\ UNCHANGED <<store, now, supplied>>

AssignConversation(c, region, req, ord) ==
    /\ ord \in Orderings(CandidatePool(region))
    /\ IF Candidates(ord, req) = <<>>
       THEN AssignNone(c, region, req)
       ELSE LET sel == SelectAgent(Candidates(ord, req)) IN
            /\ GetLoad(sel) < MaxLoad
            /\ loadKey' = [loadKey EXCEPT ![sel] = <<GetLoad(sel) + 1>>]
            /\ agentHash' = [agentHash EXCEPT ![sel].exists = TRUE,
                                              ![sel].last_activity = now]
            /\ conv' = [conv EXCEPT ![c] =
                    [exists |-> TRUE, agent_id |-> sel, status |-> "active"]]
            /\ lastEvent' = Event("conversation_assigned", sel, c)
            /\ last' = Call("assign", None, c, region, req, None, TRUE, sel)
            /\ UNCHANGED <<statusKey, metrics, online, regionIdx, now, supplied>>

\* ------------------------------------------------------------------ release
\* Lines 293-295: current_load = int(get(load key) or 0); decr only if it is
\* positive.
ReleaseLoad(lk, a) ==
    IF GetLoad(a) > 0 THEN [lk EXCEPT ![a] = <<GetLoad(a) - 1>>] ELSE lk

\* Line 302 / 385-388: hincrby(agent:metrics:{id}, conversations_completed, 1)
UpdateAgentMetrics(m, a) == [m EXCEPT ![a] = @ + 1]

ReleaseConversation(c, a) ==
    /\ metrics[a] < MaxMetric
    /\ loadKey' = ReleaseLoad(loadKey, a)
    /\ conv' = [conv EXCEPT ![c].exists = TRUE, ![c].status = "completed"]
    /\ metrics' = UpdateAgentMetrics(metrics, a)
    /\ lastEvent' = Event("conversation_released", a, c)
    /\ last' = Call("release", a, c, None, Omitted, None, TRUE, None)
    /\ UNCHANGED <<agentHash, statusKey, online, regionIdx, now, supplied>>

\* ------------------------------------------------------------------ reapStale
\* Lines 401-409: the online agents whose last_activity is before the cutoff
\* (an agent without a hash has no last_activity and is skipped).
Stale(timeout) ==
    {a \in online : agentHash[a].exists /\ agentHash[a].last_activity < now - timeout}

\* cleanup_stale_agents: agent_logout (lines 130-149) for every stale agent;
\* the event left on the channel is the logout of the agent visited last.
CleanupStaleAgents(timeout) ==
    LET stale == Stale(timeout) IN
    /\ statusKey' = [a \in AgentIds |-> IF a \in stale THEN OFFLINE ELSE statusKey[a]]
    /\ agentHash' = [a \in AgentIds |->
            IF a \in stale THEN [agentHash[a] EXCEPT !.status = OFFLINE]
            ELSE agentHash[a]]
    /\ online' = online \ stale
    /\ regionIdx' = [r \in Regions |->
            regionIdx[r] \ {a \in stale : agentHash[a].region = r}]
    /\ IF stale = {}
       THEN lastEvent' = lastEvent
       ELSE \E a \in stale : lastEvent' = Event("logout", a, None)
    /\ last' = Call("reapStale", None, None, None, Omitted, None, TRUE, None)
    /\ UNCHANGED <<loadKey, metrics, conv, now, supplied>>

\* ------------------------------------------------------------------ clock
Tick ==
    /\ now < MaxTime
    /\ now' = now + 1
    /\ UNCHANGED <<store, supplied, last, calls, procs, sentVars, connVars, keyVars, lisVars>>

\* One more call of the API, while the run's budget of calls lasts.
Called == calls < MaxCalls /\ calls' = calls + 1

\* A call that runs from start to end with no other call inside it.
Alone == Called /\ UNCHANGED <<procs, sentVars, connVars, keyVars, lisVars>>

LoginIn(R, S) == \E a \in Agents, r \in R, s \in S : AgentLogin(a, r, s)
Login == Alone /\ LoginIn(SpecRegions, LoginSkills)
Logout == Alone /\ \E a \in Agents : AgentLogout(a)
SetStatus == Alone /\ \E a \in Agents, s \in AgentStatus : UpdateAgentStatus(a, s)
Assign ==
    /\ Alone
    /\ \E c \in Convs, r \in LoginRegions, q \in RequiredSkills :
          \E ord \in Orderings(CandidatePool(r)) : AssignConversation(c, r, q, ord)
Release == Alone /\ \E c \in Convs, a \in Agents : ReleaseConversation(c, a)
ReapStale == Alone /\ \E t \in Timeouts : CleanupStaleAgents(t)

\* The API called one call at a time, at one instant of the clock.
Next ==
    \/ Login
    \/ Logout
    \/ SetStatus
    \/ Assign
    \/ Release

Spec == Init /\ [][Next]_vars

\* The presence registry under a moving clock, with the periodic sweep.
\* The login route with the agent ids a request body can carry, the empty
\* string among them.
IdLogin == Alone /\ \E a \in AgentIds, r \in Regions, s \in SweepSkills : AgentLogin(a, r, s)

IdNext ==
    \/ IdLogin
    \/ Logout
    \/ SetStatus

IdSpec == Init /\ [][IdNext]_vars

SweepLogin == Alone /\ LoginIn(LoginRegions, SweepSkills)

SweepNext ==
    \/ SweepLogin
    \/ Logout
    \/ SetStatus
    \/ ReapStale
    \/ Tick

SweepSpec == Init /\ [][SweepNext]_vars

\* Logins that name their region, logouts and sweeps, one call at a time.
RegionLogin == Alone /\ LoginIn(Regions, SweepSkills)

RegionNext ==
    \/ RegionLogin
    \/ Logout
    \/ ReapStale
    \/ Tick

RegionSpec == Init /\ [][RegionNext]_vars

\* What the running service does by itself: the clock moves on. lifespan
\* (main.py lines 16-23) starts no task, the beat schedule of celery_app.py
\* (lines 29-43) holds the daily reports and the analytics cache only, and
\* cleanup_stale_agents has no caller: a sweep happens when something outside
\* the service calls it, like any request.
SweepFairSpec == SweepSpec /\ WF_vars(Tick)

\* ------------------------------------------------------------------
\* The same calls as coroutines: each step is one `await r.<operation>` on
\* the store, and the steps of the calls in flight interleave freely.
ConcRegions == {None, "Central"}
ConcSkills == {Omitted}

\* One more call started, while the run's budget of concurrent calls lasts.
Started == calls < MaxConcCalls /\ calls' = calls + 1

Goto(p, label) ==
    pc' = [pc EXCEPT ![p] = label] /\ UNCHANGED <<sentVars, connVars, keyVars, lisVars>>
Return(p, call) ==
    /\ pc' = [pc EXCEPT ![p] = "idle"]
    /\ loc' = [loc EXCEPT ![p] = IdleLoc]
    /\ last' = call
    /\ UNCHANGED <<sentVars, connVars, keyVars, lisVars>>

\* agent_login, lines 92-113
LoginHset(p) ==
    /\ pc[p] = "idle" /\ Started
    /\ \E a \in Agents, r \in ConcRegions, s \in ConcSkills :
         /\ agentHash' = [agentHash EXCEPT ![a] =
                [exists |-> TRUE, status |-> AVAILABLE, region |-> r,
                 skills |-> SkillsOrDefault(s), last_activity |-> now]]
         /\ supplied' = [supplied EXCEPT ![a] = s]
         /\ loc' = [loc EXCEPT ![p] = [IdleLoc EXCEPT !.agent = a, !.region = r, !.req = s]]
    /\ Goto(p, "login_status")
    /\ UNCHANGED <<statusKey, loadKey, metrics, online, regionIdx, conv, lastEvent,
                   now, last>>

LoginSetStatus(p) ==
    /\ pc[p] = "login_status"
    /\ statusKey' = [statusKey EXCEPT ![loc[p].agent] = AVAILABLE]
    /\ Goto(p, "login_load")
    /\ UNCHANGED <<agentHash, loadKey, metrics, online, regionIdx, conv, lastEvent,
                   now, supplied, last, calls, loc>>

LoginSetLoad(p) ==
    /\ pc[p] = "login_load"
    /\ loadKey' = [loadKey EXCEPT ![loc[p].agent] = <<0>>]
    /\ Goto(p, "login_online")
    /\ UNCHANGED <<agentHash, statusKey, metrics, online, regionIdx, conv, lastEvent,
                   now, supplied, last, calls, loc>>

LoginSaddOnline(p) ==
    /\ pc[p] = "login_online"
    /\ online' = online \cup {loc[p].agent}
    /\ Goto(p, IF loc[p].region # None THEN "login_region" ELSE "login_publish")
    /\ UNCHANGED <<agentHash, statusKey, loadKey, metrics, regionIdx, conv, lastEvent,
                   now, supplied, last, calls, loc>>

LoginSaddRegion(p) ==
    /\ pc[p] = "login_region"
    /\ regionIdx' = [regionIdx EXCEPT ![loc[p].region] = @ \cup {loc[p].agent}]
    /\ Goto(p, "login_publish")
    /\ UNCHANGED <<agentHash, statusKey, loadKey, metrics, online, conv, lastEvent,
                   now, supplied, last, calls, loc>>

LoginPublish(p) ==
    /\ pc[p] = "login_publish"
    /\ lastEvent' = Event("login", loc[p].agent, None)
    /\ Return(p, Call("login", loc[p].agent, None, loc[p].region, loc[p].req, None,
                      TRUE, loc[p].agent))
    /\ UNCHANGED <<agentHash, statusKey, loadKey, metrics, online, regionIdx, conv,
                   now, supplied, calls>>

\* The awaits of agent_login after the hset of line 92: set, set, sadd, sadd,
\* publish (lines 95-113).
LoginAwaits == {"login_status", "login_load", "login_online", "login_region",
                "login_publish"}
\* What a store operation raises when the round trip fails.
StoreIOError == "StoreIOError"
\* How many times a call has awaited the operation it is at when that
\* operation raises: each `await r.<op>(...)` of lines 92-113 stands outside
\* any loop and any try block.
Attempts(p) == 1

\* The operation a login is at raises: nothing in agent_login or in the
\* route catches it, so the call ends with the error and the writes already
\* made stay in the store.
LoginRaise(p) ==
    /\ pc[p] \in LoginAwaits
    /\ Return(p, Call("login", loc[p].agent, None, loc[p].region, loc[p].req, None,
                      FALSE, StoreIOError))
    /\ UNCHANGED <<store, now, supplied, calls>>

FaultNext ==
    \E p \in Procs :
        \/ LoginHset(p)
        \/ LoginSetStatus(p)
        \/ LoginSetLoad(p)
        \/ LoginSaddOnline(p)
        \/ LoginSaddRegion(p)
        \/ LoginPublish(p)
        \/ LoginRaise(p)

\* Logins whose store operations may fail.
FaultSpec == Init /\ [][FaultNext]_vars

\* assign_conversation, lines 209-279
AssignReturnNone(p, c, r, q) ==
    /\ Return(p, Call("assign", None, c, r, q, None, FALSE, None))
    /\ UNCHANGED <<store, now, supplied>>

\* Lines 212 / 217: the first smembers of the call.
AssignPool(p) ==
    /\ pc[p] = "idle" /\ Started
    /\ \E c \in Convs, r \in ConcRegions, q \in RequiredSkills :
         LET ids == IF r # None THEN regionIdx[r] ELSE online IN
         IF ids # {}
         THEN /\ loc' = [loc EXCEPT ![p] =
                    [IdleLoc EXCEPT !.conv = c, !.region = r, !.req = q, !.todo = ids]]
              /\ Goto(p, "assign_status")
              /\ UNCHANGED <<store, now, supplied, last>>
         ELSE IF r # None
         THEN /\ loc' = [loc EXCEPT ![p] =
                    [IdleLoc EXCEPT !.conv = c, !.region = r, !.req = q]]
              /\ Goto(p, "assign_online")
              /\ UNCHANGED <<store, now, supplied, last>>
         ELSE AssignReturnNone(p, c, r, q)

\* Line 215: the fall-back smembers of the online set.
AssignOnline(p) ==
    /\ pc[p] = "assign_online"
    /\ IF online # {}
       THEN /\ loc' = [loc EXCEPT ![p].todo = online]
            /\ Goto(p, "assign_status")
            /\ UNCHANGED <<store, now, supplied, last>>
       ELSE AssignReturnNone(p, loc[p].conv, loc[p].region, loc[p].req)
    /\ UNCHANGED calls

\* The loop moves on with `todo` agents left: to the next agent, or out of the
\* loop to the sort and the selection (lines 242-249).
LoopOn(p, todo, cands) ==
    IF todo # {}
    THEN /\ loc' = [loc EXCEPT ![p].todo = todo, ![p].cands = cands, ![p].cur = None]
         /\ Goto(p, "assign_status")
         /\ UNCHANGED <<store, now, supplied, last>>
    ELSE IF cands # <<>>
    THEN /\ loc' = [loc EXCEPT ![p].todo = {}, ![p].cands = <<>>, ![p].cur = None,
                               ![p].sel = SelectAgent(cands)]
         /\ Goto(p, "assign_incr")
         /\ UNCHANGED <<store, now, supplied, last>>
    ELSE AssignReturnNone(p, loc[p].conv, loc[p].region, loc[p].req)

\* Line 226: get the status key of the next agent of the iteration.
AssignGetStatus(p) ==
    /\ pc[p] = "assign_status"
    /\ \E a \in loc[p].todo :
         IF statusKey[a] # AVAILABLE
         THEN LoopOn(p, loc[p].todo \ {a}, loc[p].cands)
         ELSE /\ loc' = [loc EXCEPT ![p].cur = a]
              /\ Goto(p, IF loc[p].req.given /\ loc[p].req.list # {}
                         THEN "assign_skills" ELSE "assign_load")
              /\ UNCHANGED <<store, now, supplied, last>>
    /\ UNCHANGED calls

\* Line 233: hgetall of the agent, for its skills.
AssignGetSkills(p) ==
    /\ pc[p] = "assign_skills"
    /\ IF SkillsMatch(loc[p].req, loc[p].cur)
       THEN /\ Goto(p, "assign_load")
            /\ UNCHANGED <<store, now, supplied, last, loc>>
       ELSE LoopOn(p, loc[p].todo \ {loc[p].cur}, loc[p].cands)
    /\ UNCHANGED calls

\* Line 239: get the load counter of the agent.
AssignGetLoad(p) ==
    /\ pc[p] = "assign_load"
    /\ LoopOn(p, loc[p].todo \ {loc[p].cur},
              Append(loc[p].cands, <<loc[p].cur, GetLoad(loc[p].cur)>>))
    /\ UNCHANGED calls

\* An increment that hands back the value the counter had before it.
AssignIncr_Stale(p) ==
    /\ pc[p] = "assign_incr"
    /\ GetLoad(loc[p].sel) < MaxLoad
    /\ loadKey' = [loadKey EXCEPT ![loc[p].sel] = <<GetLoad(loc[p].sel) + 1>>]
    /\ loc' = [loc EXCEPT ![p].load = GetLoad(loc[p].sel)]
    /\ Goto(p, "assign_touch")
    /\ UNCHANGED <<agentHash, statusKey, metrics, online, regionIdx, conv, lastEvent,
                   now, supplied, last, calls>>

\* Line 252: new_load = incr(load key)
AssignIncr(p) ==
    /\ pc[p] = "assign_incr"
    /\ GetLoad(loc[p].sel) < MaxLoad
    /\ loadKey' = [loadKey EXCEPT ![loc[p].sel] = <<GetLoad(loc[p].sel) + 1>>]
    /\ loc' = [loc EXCEPT ![p].load = GetLoad(loc[p].sel) + 1]
    /\ Goto(p, "assign_touch")
    /\ UNCHANGED <<agentHash, statusKey, metrics, online, regionIdx, conv, lastEvent,
                   now, supplied, last, calls>>

\* Lines 255-260: hgetall of the agent (its current_connections is then set
\* to new_load) and hset of last_activity.
AssignTouch(p) ==
    /\ pc[p] = "assign_touch"
    /\ agentHash' = [agentHash EXCEPT ![loc[p].sel].exists = TRUE,
                                      ![loc[p].sel].last_activity = now]
    /\ Goto(p, "assign_conv")
    /\ UNCHANGED <<statusKey, loadKey, metrics, online, regionIdx, conv, lastEvent,
                   now, supplied, last, calls, loc>>

\* Line 263: hset of the conversation record.
AssignHsetConv(p) ==
    /\ pc[p] = "assign_conv"
    /\ conv' = [conv EXCEPT ![loc[p].conv] =
            [exists |-> TRUE, agent_id |-> loc[p].sel, status |-> "active"]]
    /\ Goto(p, "assign_publish")
    /\ UNCHANGED <<agentHash, statusKey, loadKey, metrics, online, regionIdx, lastEvent,
                   now, supplied, last, calls, loc>>

\* Line 271: publish, and return the agent.
AssignPublish(p) ==
    /\ pc[p] = "assign_publish"
    /\ lastEvent' = Event("conversation_assigned", loc[p].sel, loc[p].conv)
    /\ Return(p, Call("assign", None, loc[p].conv, loc[p].region, loc[p].req, None,
                      TRUE, loc[p].sel))
    /\ UNCHANGED <<agentHash, statusKey, loadKey, metrics, online, regionIdx, conv,
                   now, supplied, calls>>

\* release_conversation, lines 293-312
\* The releases of agent a that have not yet incremented its metric.
ReleasesInFlight(a) ==
    Cardinality({q \in Procs : pc[q] \in {"release_decr", "release_conv", "release_metrics"}
                               /\ loc[q].agent = a})

\* Line 293: current_load = int(get(load key) or 0)
ReleaseGetLoad(p) ==
    /\ pc[p] = "idle" /\ Started
    /\ \E c \in Convs, a \in Agents :
         /\ metrics[a] + ReleasesInFlight(a) < MaxMetric
         /\ loc' = [loc EXCEPT ![p] =
                [IdleLoc EXCEPT !.conv = c, !.agent = a, !.load = GetLoad(a)]]
         /\ Goto(p, IF GetLoad(a) > 0 THEN "release_decr" ELSE "release_conv")
    /\ UNCHANGED <<store, now, supplied, last>>

\* Line 295: decr(load key), reached when the load read was positive.
ReleaseDecr(p) ==
    /\ pc[p] = "release_decr"
    /\ loadKey' = [loadKey EXCEPT ![loc[p].agent] = <<GetLoad(loc[p].agent) - 1>>]
    /\ Goto(p, "release_conv")
    /\ UNCHANGED <<agentHash, statusKey, metrics, online, regionIdx, conv, lastEvent,
                   now, supplied, last, calls, loc>>

\* Lines 298-299: hset status = completed, hset completed_at.
ReleaseHsetConv(p) ==
    /\ pc[p] = "release_conv"
    /\ conv' = [conv EXCEPT ![loc[p].conv].exists = TRUE,
                            ![loc[p].conv].status = "completed"]
    /\ Goto(p, "release_metrics")
    /\ UNCHANGED <<agentHash, statusKey, loadKey, metrics, online, regionIdx, lastEvent,
                   now, supplied, last, calls, loc>>

\* Line 302: _update_agent_metrics
ReleaseMetrics(p) ==
    /\ pc[p] = "release_metrics"
    /\ metrics' = UpdateAgentMetrics(metrics, loc[p].agent)
    /\ Goto(p, "release_publish")
    /\ UNCHANGED <<agentHash, statusKey, loadKey, online, regionIdx, conv, lastEvent,
                   now, supplied, last, calls, loc>>

\* Line 305: publish, and return True.
ReleasePublish(p) ==
    /\ pc[p] = "release_publish"
    /\ lastEvent' = Event("conversation_released", loc[p].agent, loc[p].conv)
    /\ Return(p, Call("release", loc[p].agent, loc[p].conv, None, Omitted, None,
                      TRUE, None))
    /\ UNCHANGED <<agentHash, statusKey, loadKey, metrics, online, regionIdx, conv,
                   now, supplied, calls>>

ConcNext ==
    \E p \in Procs :
        \/ LoginHset(p)
        \/ LoginSetStatus(p)
        \/ LoginSetLoad(p)
        \/ LoginSaddOnline(p)
        \/ LoginSaddRegion(p)
        \/ LoginPublish(p)
        \/ AssignPool(p)
        \/ AssignOnline(p)
        \/ AssignGetStatus(p)
        \/ AssignGetSkills(p)
        \/ AssignGetLoad(p)
        \/ AssignIncr(p)
        \/ AssignTouch(p)
        \/ AssignHsetConv(p)
        \/ AssignPublish(p)
        \/ ReleaseGetLoad(p)
        \/ ReleaseDecr(p)
        \/ ReleaseHsetConv(p)
        \/ ReleaseMetrics(p)
        \/ ReleasePublish(p)

ConcSpec == Init /\ [][ConcNext]_vars

\* ================================================================== sentiment
\* One more call of the sentiment API, while the run's budget lasts.
SentCalled == scalls < MaxSentCalls /\ scalls' = scalls + 1

\* round(x, 4) of the quotient s / n, in score units: the nearest unit, a tie
\* going to the even one.
RoundDiv(s, n) ==
    LET q == s \div n
        r == s % n
    IN IF 2 * r < n THEN q
       ELSE IF 2 * r > n THEN q + 1
       ELSE IF q % 2 = 0 THEN q ELSE q + 1

\* An average cut to its fourth decimal instead of rounded.
Average_Truncated(new_sum, new_count) ==
    IF new_count > 0 THEN new_sum \div new_count ELSE 0

\* Line 109: new_sum / new_count if new_count > 0 else 0.0; line 110: round.
Average(new_sum, new_count) ==
    IF new_count > 0 THEN RoundDiv(new_sum, new_count) ELSE 0

\* The store's list range: indexes from 0, both ends included, a negative
\* index counting from the tail of the list (-1 is the last element).
LRange(l, start, stop) ==
    LET n == Len(l)
        s0 == IF start < 0 THEN (IF n + start < 0 THEN 0 ELSE n + start) ELSE start
        e0 == IF stop < 0 THEN n + stop ELSE (IF stop > n - 1 THEN n - 1 ELSE stop)
    IN IF s0 > e0 \/ s0 >= n THEN <<>> ELSE SubSeq(l, s0 + 1, e0 + 1)

\* A history that is never trimmed.
LTrim_Keep(l, start, stop) == l

\* ltrim keeps the range and drops the rest.
LTrim(l, start, stop) == LRange(l, start, stop)

\* A validation that lets every department code and every score through.
Valid_Any(d, x) == d \in PARAGUAY_DEPARTMENTS

\* Lines 84-88: the department is a known code and -1.0 <= score <= 1.0.
Valid(d, x) == d \in PARAGUAY_DEPARTMENTS /\ -Unit <= x /\ x <= Unit

SentimentUpdate(i, d, x, avg, n) ==
    [type |-> "sentiment_update", department_id |-> d, sentiment_score |-> x,
     average |-> avg, total_count |-> n, origin |-> i]
\* What an observer keeps of a message it received.
Received(msg) == [type |-> msg.type, department_id |-> msg.department_id,
                  total_count |-> msg.total_count]
InitialState == [type |-> "initial_state", department_id |-> None, total_count |-> 0]

\* broadcast_update on instance i: send_text to every registered client; the
\* clients whose send raises (the peer has gone) are discarded.
BroadcastUpdate(i, msg) ==
    /\ inbox' = [w \in Sockets |->
            IF w \in clients[i] /\ w \in open THEN Append(inbox[w], Received(msg))
            ELSE inbox[w]]
    /\ clients' = [clients EXCEPT ![i] = @ \cap open]

\* record_sentiment, lines 84-142, called on instance i.
RecordSentiment(i, d, x) ==
    IF ~Valid(d, x)
    THEN /\ slast' = [NoSentCall EXCEPT !.op = "record", !.department_id = d,
                                        !.score = x]
         /\ UNCHANGED <<sentStore, observers, samples>>
    ELSE LET new_sum == sentSum[d] + x
             new_count == sentCount[d] + 1
             new_average == Average(new_sum, new_count)
             update_data == SentimentUpdate(i, d, x, new_average, new_count)
         IN /\ sentSum' = [sentSum EXCEPT ![d] = new_sum]
            /\ sentCount' = [sentCount EXCEPT ![d] = new_count]
            /\ sentCurrent' = [sentCurrent EXCEPT ![d] = <<new_average>>]
            /\ sentHistory' = [sentHistory EXCEPT ![d] =
                    LTrim(<<x>> \o @, 0, MAX_HISTORY - 1)]
            /\ sentEvent' = update_data
            /\ BroadcastUpdate(i, update_data)
            /\ samples' = [samples EXCEPT ![d] = <<x>> \o @]
            /\ slast' = [NoSentCall EXCEPT !.op = "record", !.department_id = d,
                            !.score = x, !.ok = TRUE, !.average = new_average,
                            !.total_count = new_count]
            /\ UNCHANGED open

\* get_department_history, lines 190-202.
GetDepartmentHistory(d, limit) ==
    /\ slast' = [NoSentCall EXCEPT !.op = "getHistory", !.department_id = d,
                    !.limit = limit, !.ok = TRUE,
                    !.history = LRange(sentHistory[d], 0, limit - 1)]
    /\ UNCHANGED <<sentStore, observers, samples>>

\* reset_department, lines 243-252.
\* A reset that leaves the cached average of the department in place.
ResetDepartment_KeepsCache(d) ==
    /\ sentSum' = [sentSum EXCEPT ![d] = 0]
    /\ sentCount' = [sentCount EXCEPT ![d] = 0]
    /\ sentHistory' = [sentHistory EXCEPT ![d] = <<>>]
    /\ samples' = [samples EXCEPT ![d] = <<>>]
    /\ slast' = [NoSentCall EXCEPT !.op = "reset", !.department_id = d, !.ok = TRUE]
    /\ UNCHANGED <<sentCurrent, sentEvent, observers>>

ResetDepartment(d) ==
    /\ sentSum' = [sentSum EXCEPT ![d] = 0]
    /\ sentCount' = [sentCount EXCEPT ![d] = 0]
    /\ sentHistory' = [sentHistory EXCEPT ![d] = <<>>]
    /\ sentCurrent' = [sentCurrent EXCEPT ![d] = <<>>]
    /\ samples' = [samples EXCEPT ![d] = <<>>]
    /\ slast' = [NoSentCall EXCEPT !.op = "reset", !.department_id = d, !.ok = TRUE]
    /\ UNCHANGED <<sentEvent, observers>>

\* An average that is also absent when the sum of the scores is zero.
RegionAverage_Falsy(total_sum, count) ==
    IF count > 0 /\ total_sum # 0 THEN <<RoundDiv(total_sum, count)>> ELSE <<>>

\* Lines 154-158: total_sum / count if count > 0 else None, then round(.., 4)
\* of an average that is not None. <<>> is None, <<v>> the rounded average.
RegionAverage(total_sum, count) ==
    IF count > 0 THEN <<RoundDiv(total_sum, count)>> ELSE <<>>

\* get_department_sentiment, lines 144-160: an absent key reads as 0.
GetDepartmentSentiment(d) ==
    LET total_sum == sentSum[d]
        count == sentCount[d]
        average == RegionAverage(total_sum, count)
    IN /\ slast' = [NoSentCall EXCEPT !.op = "getRegion", !.department_id = d,
                       !.ok = TRUE, !.average_none = (average = <<>>),
                       !.average = IF average = <<>> THEN 0 ELSE average[1],
                       !.total_count = count]
       /\ UNCHANGED <<sentStore, observers, samples>>

\* reset_all, lines 254-268: the three keys of every department, then the
\* hash of the current averages.
ResetAll ==
    /\ sentSum' = [d \in PARAGUAY_DEPARTMENTS |-> 0]
    /\ sentCount' = [d \in PARAGUAY_DEPARTMENTS |-> 0]
    /\ sentHistory' = [d \in PARAGUAY_DEPARTMENTS |-> <<>>]
    /\ sentCurrent' = [d \in PARAGUAY_DEPARTMENTS |-> <<>>]
    /\ samples' = [d \in PARAGUAY_DEPARTMENTS |-> <<>>]
    /\ slast' = [NoSentCall EXCEPT !.op = "resetAll", !.ok = TRUE]
    /\ UNCHANGED <<sentEvent, observers>>

\* websocket_sentiment, lines 89-103, run with no other coroutine inside it:
\* accept, register, read the averages, send initial_state.
ConnectObserver(w) ==
    /\ w \notin open /\ inbox[w] = <<>>
    /\ open' = open \cup {w}
    /\ clients' = [clients EXCEPT ![InstanceOf(w)] = @ \cup {w}]
    /\ inbox' = [inbox EXCEPT ![w] = <<InitialState>>]
    /\ UNCHANGED <<sentStore, samples, slast, scalls>>

\* The peer of an observer connection goes away; the handler, parked in
\* receive_text, has not run yet.
DropObserver(w) ==
    /\ w \in open
    /\ open' = open \ {w}
    /\ UNCHANGED <<sentStore, clients, inbox, samples, slast, scalls>>

Record ==
    /\ SentCalled
    /\ \E i \in SentInstances, d \in DepartmentIds, x \in Scores : RecordSentiment(i, d, x)
    /\ UNCHANGED <<agentVars, keyVars, lisVars, coros>>
GetHistory ==
    /\ SentCalled
    /\ \E d \in PARAGUAY_DEPARTMENTS, n \in Limits : GetDepartmentHistory(d, n)
    /\ UNCHANGED <<agentVars, keyVars, lisVars, coros>>
Reset ==
    /\ SentCalled
    /\ \E d \in PARAGUAY_DEPARTMENTS : ResetDepartment(d)
    /\ UNCHANGED <<agentVars, keyVars, lisVars, coros>>
GetRegion ==
    /\ SentCalled
    /\ \E d \in PARAGUAY_DEPARTMENTS : GetDepartmentSentiment(d)
    /\ UNCHANGED <<agentVars, keyVars, lisVars, coros>>
ResetEverything ==
    /\ SentCalled
    /\ ResetAll
    /\ UNCHANGED <<agentVars, keyVars, lisVars, coros>>
Connect == (\E w \in SentSockets : ConnectObserver(w)) /\ UNCHANGED <<agentVars, keyVars, lisVars, coros>>
Drop == (\E w \in SentSockets : DropObserver(w)) /\ UNCHANGED <<agentVars, keyVars, lisVars, coros>>

\* The sentiment API called one call at a time, with observers coming and
\* going between the calls.
SentNext ==
    \/ Record
    \/ GetHistory
    \/ Reset
    \/ GetRegion
    \/ ResetEverything
    \/ Connect
    \/ Drop

SentSpec == Init /\ [][SentNext]_vars

\* ================================================================== stream
\* record_sentiment and websocket_sentiment as coroutines: each step is one
\* await, and the steps of the coroutines in flight interleave freely. The
\* calls are valid ones: an invalid call ends at line 85 or 88, before its
\* first await.
StreamDepartments == {"PY-ASU"}
StreamScores == {5000, 10000}

SGoto(p, label) == spc' = [spc EXCEPT ![p] = label]

\* A record step that neither publishes nor sends leaves these alone.
RecQuiet == UNCHANGED <<sentEvent, observers, slast, scalls, wpc, agentVars, keyVars, lisVars>>

\* A record that goes on without executing its pipeline.
RecExec_NoIncr(p, i, d, x) ==
    /\ spc[p] = "idle" /\ Valid(d, x)
    /\ sloc' = [sloc EXCEPT ![p] = [IdleSloc EXCEPT !.inst = i,
                    !.department_id = d, !.score = x]]
    /\ SGoto(p, "rec_hset")
    /\ UNCHANGED <<sentSum, sentCount, samples, sentCurrent, sentHistory,
                   sentEvent, observers, slast, wpc, agentVars, keyVars, lisVars>>

\* A pipeline that increments the sum and leaves the count alone.
RecExec_SumOnly(p, i, d, x) ==
    /\ spc[p] = "idle" /\ Valid(d, x)
    /\ sentSum' = [sentSum EXCEPT ![d] = @ + x]
    /\ samples' = [samples EXCEPT ![d] = <<x>> \o @]
    /\ sloc' = [sloc EXCEPT ![p] = [IdleSloc EXCEPT !.inst = i,
                    !.department_id = d, !.score = x,
                    !.new_sum = sentSum[d] + x, !.new_count = sentCount[d]]]
    /\ SGoto(p, "rec_hset")
    /\ UNCHANGED <<sentCount, sentCurrent, sentHistory, sentEvent, observers, slast,
                   wpc, agentVars, keyVars, lisVars>>

\* Lines 94-106: the pipeline's execute applies incrbyfloat(sum) and
\* incr(count) as one transaction and returns the new sum and count.
RecExec(p, i, d, x) ==
    /\ spc[p] = "idle" /\ Valid(d, x)
    /\ sentSum' = [sentSum EXCEPT ![d] = @ + x]
    /\ sentCount' = [sentCount EXCEPT ![d] = @ + 1]
    /\ samples' = [samples EXCEPT ![d] = <<x>> \o @]
    /\ sloc' = [sloc EXCEPT ![p] = [IdleSloc EXCEPT !.inst = i,
                    !.department_id = d, !.score = x,
                    !.new_sum = sentSum[d] + x, !.new_count = sentCount[d] + 1]]
    /\ SGoto(p, "rec_hset")
    /\ UNCHANGED <<sentCurrent, sentHistory, sentEvent, observers, slast, wpc,
                   agentVars, keyVars, lisVars>>

\* Lines 109-113: the average of the values the pipeline returned, written to
\* the hash of current averages.
RecHset(p) ==
    /\ spc[p] = "rec_hset"
    /\ LET avg == Average(sloc[p].new_sum, sloc[p].new_count) IN
       /\ sentCurrent' = [sentCurrent EXCEPT ![sloc[p].department_id] = <<avg>>]
       /\ sloc' = [sloc EXCEPT ![p].new_average = avg]
    /\ SGoto(p, "rec_lpush")
    /\ RecQuiet /\ UNCHANGED <<sentSum, sentCount, sentHistory, samples>>

\* Line 122: lpush of the history entry.
RecLpush(p) ==
    /\ spc[p] = "rec_lpush"
    /\ sentHistory' = [sentHistory EXCEPT ![sloc[p].department_id] =
            <<sloc[p].score>> \o @]
    /\ SGoto(p, "rec_ltrim")
    /\ RecQuiet /\ UNCHANGED <<sentSum, sentCount, sentCurrent, samples, sloc>>

\* Line 123: ltrim to the newest MAX_HISTORY entries.
RecLtrim(p) ==
    /\ spc[p] = "rec_ltrim"
    /\ sentHistory' = [sentHistory EXCEPT ![sloc[p].department_id] =
            LTrim(@, 0, MAX_HISTORY - 1)]
    /\ SGoto(p, "rec_publish")
    /\ RecQuiet /\ UNCHANGED <<sentSum, sentCount, sentCurrent, samples, sloc>>

\* The message of the call coroutine p is in (lines 126-134).
UpdateData(p) ==
    SentimentUpdate(sloc[p].inst, sloc[p].department_id, sloc[p].score,
                    sloc[p].new_average, sloc[p].new_count)

\* Line 137: publish on sentiment:updates. No coroutine of any instance
\* subscribes to that channel, so the message reaches no one.
RecPublish(p) ==
    /\ spc[p] = "rec_publish"
    /\ sentEvent' = UpdateData(p)
    /\ SGoto(p, "rec_broadcast")
    /\ UNCHANGED <<sentSum, sentCount, sentCurrent, sentHistory, samples, sloc,
                   observers, slast, scalls, wpc, agentVars, keyVars, lisVars>>

\* Lines 140-142: broadcast_update to the clients of the call's own instance,
\* and return.
RecBroadcast(p) ==
    /\ spc[p] = "rec_broadcast"
    /\ BroadcastUpdate(sloc[p].inst, UpdateData(p))
    /\ slast' = [NoSentCall EXCEPT !.op = "record",
                    !.department_id = sloc[p].department_id,
                    !.score = sloc[p].score, !.ok = TRUE,
                    !.average = sloc[p].new_average,
                    !.total_count = sloc[p].new_count]
    /\ spc' = [spc EXCEPT ![p] = "idle"]
    /\ sloc' = [sloc EXCEPT ![p] = IdleSloc]
    /\ UNCHANGED <<sentStore, samples, open, scalls, wpc, agentVars, keyVars, lisVars>>

\* Only the handler of w moves, and no store key changes.
WsQuiet == UNCHANGED <<sentStore, samples, slast, scalls, spc, sloc, agentVars, keyVars, lisVars>>

\* Lines 89-94: accept, then register_websocket adds the socket to the
\* instance's clients.
WsRegister(w) ==
    /\ wpc[w] = "closed" /\ w \notin open /\ inbox[w] = <<>>
    /\ open' = open \cup {w}
    /\ clients' = [clients EXCEPT ![InstanceOf(w)] = @ \cup {w}]
    /\ wpc' = [wpc EXCEPT ![w] = "get_all"]
    /\ UNCHANGED inbox /\ WsQuiet

\* Line 98: get_all_sentiments (hgetall of the current averages).
WsGetAll(w) ==
    /\ wpc[w] = "get_all"
    /\ wpc' = [wpc EXCEPT ![w] = "send_initial"]
    /\ UNCHANGED observers /\ WsQuiet

\* Lines 126-130: the socket leaves the instance's clients.
Unregister(w) ==
    /\ clients' = [clients EXCEPT ![InstanceOf(w)] = @ \ {w}]
    /\ wpc' = [wpc EXCEPT ![w] = "done"]

\* Lines 99-103: send initial_state; the send raises when the peer has gone,
\* and the handler ends through its finally clause.
WsSendInitial(w) ==
    /\ wpc[w] = "send_initial"
    /\ IF w \in open
       THEN /\ inbox' = [inbox EXCEPT ![w] = Append(@, InitialState)]
            /\ wpc' = [wpc EXCEPT ![w] = "receive"]
            /\ UNCHANGED clients
       ELSE /\ Unregister(w)
            /\ UNCHANGED inbox
    /\ UNCHANGED open /\ WsQuiet

\* The peer goes away.
WsDrop(w) ==
    /\ w \in open
    /\ open' = open \ {w}
    /\ UNCHANGED <<clients, inbox, wpc>> /\ WsQuiet

\* Lines 109, 123-130: receive_text raises WebSocketDisconnect, and the
\* handler unregisters the socket.
WsDisconnect(w) ==
    /\ wpc[w] = "receive" /\ w \notin open
    /\ Unregister(w)
    /\ UNCHANGED <<inbox, open>> /\ WsQuiet

StreamRecord(p) ==
    /\ scalls < MaxStreamCalls /\ scalls' = scalls + 1
    /\ \E i \in Instances, d \in StreamDepartments, x \in StreamScores :
          RecExec(p, i, d, x)

StreamNext ==
    \/ \E p \in Procs :
        \/ StreamRecord(p)
        \/ RecHset(p)
        \/ RecLpush(p)
        \/ RecLtrim(p)
        \/ RecPublish(p)
        \/ RecBroadcast(p)
    \/ \E w \in Sockets :
        \/ WsRegister(w)
        \/ WsGetAll(w)
        \/ WsSendInitial(w)
        \/ WsDrop(w)
        \/ WsDisconnect(w)

StreamSpec == Init /\ [][StreamNext]_vars

\* The event loop of an instance runs every coroutine that is ready: a call
\* or a handler that has started takes its next step. When calls start, and
\* when peers connect or go away, is up to the environment.
StreamFairness ==
    /\ \A p \in Procs :
          /\ WF_vars(RecHset(p)) /\ WF_vars(RecLpush(p)) /\ WF_vars(RecLtrim(p))
          /\ WF_vars(RecPublish(p)) /\ WF_vars(RecBroadcast(p))
    /\ \A w \in Sockets :
          /\ WF_vars(WsGetAll(w)) /\ WF_vars(WsSendInitial(w))
          /\ WF_vars(WsDisconnect(w))

StreamFairSpec == StreamSpec /\ StreamFairness

\* Record calls running at once on one department, with no observer.
MaxRecordCalls == 3
RecordStart(p) ==
    /\ scalls < MaxRecordCalls /\ scalls' = scalls + 1
    /\ \E i \in SentInstances, d \in StreamDepartments, x \in StreamScores :
          RecExec(p, i, d, x)

RecordNext ==
    \E p \in Procs :
        \/ RecordStart(p)
        \/ RecHset(p)
        \/ RecLpush(p)
        \/ RecLtrim(p)
        \/ RecPublish(p)
        \/ RecBroadcast(p)

RecordSpec == Init /\ [][RecordNext]_vars

\* ================================================================== ordering
\* The calls that increment a counter and then publish (login, to bring an
\* agent online, assign and record), as coroutines over one store.
OrderScores == {5000}
OrderLogin(p) == calls < MaxOrderCalls /\ LoginHset(p)
OrderAssign(p) == calls < MaxOrderCalls /\ AssignPool(p)
OrderRecord(p) ==
    /\ scalls < MaxOrderRecords /\ scalls' = scalls + 1
    /\ \E i \in SentInstances, d \in StreamDepartments, x \in OrderScores :
          RecExec(p, i, d, x)

OrderNext ==
    \E p \in Procs :
        \/ OrderLogin(p)
        \/ LoginSetStatus(p)
        \/ LoginSetLoad(p)
        \/ LoginSaddOnline(p)
        \/ LoginSaddRegion(p)
        \/ LoginPublish(p)
        \/ OrderAssign(p)
        \/ AssignOnline(p)
        \/ AssignGetStatus(p)
        \/ AssignGetSkills(p)
        \/ AssignGetLoad(p)
        \/ AssignIncr(p)
        \/ AssignTouch(p)
        \/ AssignHsetConv(p)
        \/ AssignPublish(p)
        \/ OrderRecord(p)
        \/ RecHset(p)
        \/ RecLpush(p)
        \/ RecLtrim(p)
        \/ RecPublish(p)
        \/ RecBroadcast(p)

OrderSpec == Init /\ [][OrderNext]_vars

\* ================================================================== agent stream
\* ConnectionManager.active_connections, a dict from agent id to websocket,
\* is kept as the dict keeps it: its entries in insertion order, a deleted
\* entry leaving a hole (agent_id = None), a key set again in place.
Hole == [agent_id |-> None, ws |-> None]
Live(d) == {k \in 1..Len(d) : d[k].agent_id # None}
DictLen(d) == Cardinality(Live(d))
Find(d, a) == IF \E k \in Live(d) : d[k].agent_id = a
              THEN CHOOSE k \in Live(d) : d[k].agent_id = a
              ELSE 0
DictSet(d, a, ws) ==
    IF Find(d, a) # 0 THEN [d EXCEPT ![Find(d, a)].ws = ws]
    ELSE Append(d, [agent_id |-> a, ws |-> ws])
DictDel(d, a) == IF Find(d, a) # 0 THEN [d EXCEPT ![Find(d, a)] = Hole] ELSE d
\* The entry the dict iterator standing at position i yields next (0: none).
NextLive(d, i) ==
    IF \E k \in Live(d) : k > i
    THEN CHOOSE k \in Live(d) : k > i /\ \A j \in Live(d) : j > i => k <= j
    ELSE 0
\* The websockets the connection table holds.
Table(d) == {d[k].ws : k \in Live(d)}

\* A disconnect that removes the entry only while it still holds the
\* connection ws.
DisconnectOf(d, a, ws) ==
    IF Find(d, a) # 0 /\ d[Find(d, a)].ws = ws THEN DictDel(d, a) ELSE d

\* A disconnect that leaves the listener alone.
Disconnect_KeepsListener(d, run, a) ==
    [active |-> DictDel(d, a), running |-> run]

\* ConnectionManager.disconnect, lines 80-88: the table and the listener
\* flag after disconnect(a).
Disconnect(d, run, a) ==
    LET d2 == DictDel(d, a)
    IN [active |-> d2, running |-> IF DictLen(d2) = 0 THEN FALSE ELSE run]

\* Lines 105-106: disconnect for every agent id of the `disconnected` list.
RECURSIVE DisconnectAll(_, _, _)
DisconnectAll(d, run, ids) ==
    IF ids = <<>> THEN [active |-> d, running |-> run]
    ELSE LET r == Disconnect(d, run, Head(ids))
         IN DisconnectAll(r.active, r.running, Tail(ids))

\* The agent stream leaves the sentiment side and the calls of the API alone.
HQuiet == UNCHANGED <<sentVars, keyVars, lisVars, calls, procs>>

\* broadcast is entered on the table d (line 98): with no entry the loop and
\* the call are over at once and the handler runs on to `then`; otherwise
\* the send_json to the first entry is awaited.
EnterBroadcast(s, d, then) ==
    LET k == NextLive(d, 0) IN
    IF k = 0
    THEN /\ hloc' = [hloc EXCEPT ![s] = [NoBroadcast EXCEPT !.then = then]]
         /\ hpc' = [hpc EXCEPT ![s] = then]
    ELSE /\ hloc' = [hloc EXCEPT ![s] = [NoBroadcast EXCEPT !.idx = k,
                        !.size = DictLen(d), !.target = d[k].ws,
                        !.agent_id = d[k].agent_id, !.began = Table(d),
                        !.then = then]]
         /\ hpc' = [hpc EXCEPT ![s] = "broadcast"]

\* Lines 69-78 and 348: accept the connection and enter it in the table.
HConnect(s) ==
    /\ hpc[s] = "closed"
    /\ alive' = alive \cup {s}
    /\ active' = DictSet(active, AgentOf(s), s)
    /\ running' = TRUE
    /\ hpc' = [hpc EXCEPT ![s] = "login"]
    /\ UNCHANGED <<store, now, supplied, last, hloc>> /\ HQuiet

\* Lines 351-364: agent_login with the handler's fixed skills and no region,
\* then the broadcast of agente_conectado begins.
HLogin(s) ==
    /\ hpc[s] = "login"
    /\ AgentLogin(AgentOf(s), None, Given({"voice", "whatsapp"}))
    /\ EnterBroadcast(s, active, "receive")
    /\ UNCHANGED <<active, running, alive>> /\ HQuiet

\* Lines 99-106: the awaited send_json returns or raises; the iterator is
\* asked for the next entry and raises RuntimeError if the dict's size has
\* changed since the loop began; after the last entry the agent ids of the
\* `disconnected` list are removed. A RuntimeError leaves the handler through
\* no except clause (lines 359 and 445 are outside the try block): the
\* handler is over and the server closes its connection.
HSend(s) ==
    /\ hpc[s] = "broadcast"
    /\ LET b == hloc[s]
           ok == b.target \in alive
           disconnected == IF ok THEN b.disconnected
                           ELSE Append(b.disconnected, b.agent_id)
           sent == IF ok THEN b.sent \cup {b.target} ELSE b.sent
           raised == IF ok THEN b.raised ELSE b.raised \cup {b.target}
           k == NextLive(active, b.idx)
           after == DisconnectAll(active, running, disconnected)
       IN IF DictLen(active) # b.size
          THEN /\ hloc' = [hloc EXCEPT ![s] = [b EXCEPT !.sent = sent,
                              !.raised = raised, !.disconnected = disconnected,
                              !.target = None, !.agent_id = None]]
               /\ hpc' = [hpc EXCEPT ![s] = "crashed"]
               /\ alive' = alive \ {s}
               /\ UNCHANGED <<active, running>>
          ELSE IF k # 0
          THEN /\ hloc' = [hloc EXCEPT ![s] = [b EXCEPT !.sent = sent,
                              !.raised = raised, !.disconnected = disconnected,
                              !.idx = k, !.target = active[k].ws,
                              !.agent_id = active[k].agent_id]]
               /\ UNCHANGED <<hpc, active, running, alive>>
          ELSE /\ hloc' = [hloc EXCEPT ![s] = [b EXCEPT !.sent = sent,
                              !.raised = raised, !.disconnected = disconnected,
                              !.target = None, !.agent_id = None]]
               /\ active' = after.active
               /\ running' = after.running
               /\ hpc' = [hpc EXCEPT ![s] = b.then]
               /\ UNCHANGED alive
    /\ UNCHANGED <<store, now, supplied, last>> /\ HQuiet

\* The peer of an agent connection goes away.
HDrop(s) ==
    /\ s \in alive
    /\ alive' = alive \ {s}
    /\ UNCHANGED <<store, now, supplied, last, active, running, hpc, hloc>>
    /\ HQuiet

\* Lines 368 and 439-449: receive_json raises WebSocketDisconnect; the
\* handler logs the agent out, removes the agent id from the table and
\* begins the broadcast of agente_desconectado.
HDisconnect(s) ==
    /\ hpc[s] = "receive" /\ s \notin alive
    /\ AgentLogout(AgentOf(s))
    /\ LET r == Disconnect(active, running, AgentOf(s)) IN
       /\ active' = r.active
       /\ running' = r.running
       /\ EnterBroadcast(s, r.active, "done")
    /\ UNCHANGED alive /\ HQuiet

\* The handlers of the agent stream of one instance, each step one await.
\* The messages a connected agent sends (lines 371-437) are left out.
AgentStreamNext ==
    \E s \in AgentSockets :
        \/ HConnect(s)
        \/ HLogin(s)
        \/ HSend(s)
        \/ HDrop(s)
        \/ HDisconnect(s)

AgentStreamSpec == Init /\ [][AgentStreamNext]_vars

\* ================================================================== assigns
\* Logins made one at a time, and then assign_conversation calls running at
\* once with no login, logout or release among them.
MaxAssignCalls == 3
AssignLogin ==
    /\ \A p \in Procs : pc[p] = "idle"
    /\ last.op \in {None, "login"}
    /\ calls < MaxAssignCalls
    /\ Alone /\ LoginIn(ConcRegions, ConcSkills)
AssignStart(p) == calls < MaxAssignCalls /\ AssignPool(p)

AssignNext ==
    \/ AssignLogin
    \/ \E p \in Procs :
        \/ AssignStart(p)
        \/ AssignOnline(p)
        \/ AssignGetStatus(p)
        \/ AssignGetSkills(p)
        \/ AssignGetLoad(p)
        \/ AssignIncr(p)
        \/ AssignTouch(p)
        \/ AssignHsetConv(p)
        \/ AssignPublish(p)

AssignSpec == Init /\ [][AssignNext]_vars

\* ================================================================== keys
\* KeyRotationManager, backend/app/utils/security.py. AES-GCM is modelled by
\* what it guarantees: decrypt gives the plaintext back under the key that
\* sealed it and raises InvalidTag under any other key or on other bytes.

\* base64.b64encode of the sealed bytes: one piece of base64 text.
Base64Encode(k, n, p) == <<B64(k, n, p)>>

\* base64.b64decode, validate=False: the characters outside the alphabet are
\* discarded first; what is left decodes to the sealed bytes when it is
\* exactly their base64 text, and to other bytes (or a padding error) when
\* it is not.
Base64Decode(s) ==
    LET kept == SelectSeq(s, LAMBDA t : t.ch \in Base64Alphabet)
    IN IF Len(kept) = 1 /\ kept[1].ch = "b64"
       THEN [ok |-> TRUE, bytes |-> kept[1]]
       ELSE [ok |-> FALSE, bytes |-> Tok("")]

\* An encrypt that seals with the current key whatever the version asked for.
SealKey_Current(version) == keyring[CURRENT_VERSION]

\* Line 92: self._aesgcm_instances[version].
SealKey(version) == keyring[version]

\* encrypt, lines 68-107.
Encrypt(plaintext, version, nonce) ==
    IF plaintext = "" THEN [raised |-> FALSE, cipher |-> <<>>]
    ELSE LET v == IF version = None THEN CURRENT_VERSION ELSE version
         IN IF v \notin Versions THEN [raised |-> TRUE, cipher |-> <<>>]
            ELSE [raised |-> FALSE,
                  cipher |-> <<Tok(v), Colon>> \o Base64Encode(SealKey(v), nonce, plaintext)]

\* _parse_versioned_ciphertext, lines 147-160: split at the first colon; the
\* text before it is the version when it is a key of _keys, and otherwise
\* the whole string is taken for a v1 payload.
ParseVersionedCiphertext(c) ==
    LET colons == {i \in 1..Len(c) : c[i] = Colon}
    IN IF colons = {} THEN [version |-> "v1", data |-> c]
       ELSE LET i == CHOOSE k \in colons : \A j \in colons : k <= j
            IN IF i = 2 /\ c[1].ch \in Versions
               THEN [version |-> c[1].ch, data |-> SubSeq(c, 3, Len(c))]
               ELSE [version |-> "v1", data |-> c]

\* decrypt, lines 109-145.
Decrypt(c) ==
    IF c = <<>> THEN [raised |-> FALSE, text |-> ""]
    ELSE LET parsed == ParseVersionedCiphertext(c)
             encrypted == Base64Decode(parsed.data)
         IN IF encrypted.ok /\ encrypted.bytes.key = keyring[parsed.version]
            THEN [raised |-> FALSE, text |-> encrypted.bytes.pt]
            ELSE [raised |-> TRUE, text |-> ""]

\* re_encrypt, lines 162-175: an exception of decrypt or encrypt goes through.
ReEncrypt(c, target_version, nonce) ==
    LET plaintext == Decrypt(c)
    IN IF plaintext.raised THEN [raised |-> TRUE, cipher |-> <<>>]
       ELSE Encrypt(plaintext.text, target_version, nonce)

\* is_current_version, lines 181-186.
IsCurrentVersion(c) ==
    IF c = <<>> THEN TRUE ELSE ParseVersionedCiphertext(c).version = CURRENT_VERSION

\* decrypt_any, lines 217-234.
DecryptAny(c) ==
    IF c = <<>> THEN ""
    ELSE IF Decrypt(c).raised THEN ERROR_DECRYPTION ELSE Decrypt(c).text

\* A rotation that leaves every item as it was.
RotateItem_Kept(item, nonce) == item

\* rotate_data_task, lines 247-254, for one item of the list: the item
\* re-encrypted, or the item itself when re-encryption raised.
RotateItem(item, nonce) ==
    LET re_encrypted == ReEncrypt(item, CURRENT_VERSION, nonce)
    IN IF re_encrypted.raised THEN item ELSE re_encrypted.cipher

\* rotate_data_task, lines 236-255; nonces[i] is what os.urandom gives for
\* the i-th item.
RotateDataTask(encrypted_items, nonces) ==
    [i \in 1..Len(encrypted_items) |-> RotateItem(encrypted_items[i], nonces[i])]

\* The strings handed to the manager: a prefix (none, a version, a label
\* that is no version, a bare colon) before a payload (sealed under a key of
\* the ring or a foreign key, other base64 text, nothing).
KeyMaterial == {"k1", "k2"}
ForeignKey == "kx"
Prefixes ==
    {<<>>, <<Colon>>} \cup {<<Tok(l), Colon>> : l \in Versions \cup {"v99", "#"}}
Payloads ==
    {Base64Encode(k, 1, p) : k \in KeyMaterial \cup {ForeignKey}, p \in {"a", "b"}}
        \cup {<<Tok("zz")>>, <<>>}
CipherInputs == {pre \o pay : pre \in Prefixes, pay \in Payloads}
MaxItems == 2
ItemLists == UNION {[1..n -> CipherInputs] : n \in 0..MaxItems}

\* The manager is built and has not been called yet. A call leaves nothing
\* behind in the manager (its only state is the ring), so a run makes one.
Constructed == keyring["v1"] # None /\ klast.op = None
KeyQuiet == UNCHANGED <<keyring, agentVars, sentVars, lisVars>>

\* __init__, lines 41-66, with ENCRYPTION_KEY set and ENCRYPTION_KEY_V2 set
\* or not.
KeyInit ==
    /\ keyring["v1"] = None
    /\ \E v2_key \in {None, "k2"} :
          keyring' = [v \in Versions |->
                IF v = "v2" /\ v2_key # None THEN v2_key ELSE "k1"]
    /\ UNCHANGED <<klast, agentVars, sentVars, lisVars>>

EncryptWithVersion ==
    /\ Constructed
    /\ \E p \in Plaintexts, v \in Versions \cup {"v99"}, n \in Nonces :
          LET r == Encrypt(p, v, n)
          IN klast' = [NoKeyCall EXCEPT !.op = "encrypt_with_version",
                          !.plaintext = p, !.version = v,
                          !.raised = r.raised, !.cipher = r.cipher]
    /\ KeyQuiet

EncryptNew ==
    /\ Constructed
    /\ \E p \in Plaintexts, n \in Nonces :
          LET r == Encrypt(p, CURRENT_VERSION, n)
          IN klast' = [NoKeyCall EXCEPT !.op = "encrypt_new", !.plaintext = p,
                          !.raised = r.raised, !.cipher = r.cipher]
    /\ KeyQuiet

CallDecryptAny ==
    /\ Constructed
    /\ \E c \in CipherInputs :
          klast' = [NoKeyCall EXCEPT !.op = "decrypt_any", !.input = c,
                       !.text = DecryptAny(c)]
    /\ KeyQuiet

CallReEncrypt ==
    /\ Constructed
    /\ \E c \in CipherInputs, n \in Nonces :
          LET r == ReEncrypt(c, None, n)
          IN klast' = [NoKeyCall EXCEPT !.op = "re_encrypt", !.input = c,
                          !.raised = r.raised, !.cipher = r.cipher]
    /\ KeyQuiet

CallIsCurrentVersion ==
    /\ Constructed
    /\ \E c \in CipherInputs :
          klast' = [NoKeyCall EXCEPT !.op = "is_current_version", !.input = c,
                       !.flag = IsCurrentVersion(c)]
    /\ KeyQuiet

CallRotateDataTask ==
    /\ Constructed
    /\ \E items \in ItemLists :
          \E nonces \in [1..Len(items) -> Nonces] :
             klast' = [NoKeyCall EXCEPT !.op = "rotate_data_task", !.items = items,
                          !.out = RotateDataTask(items, nonces)]
    /\ KeyQuiet

KeyNext ==
    \/ KeyInit
    \/ EncryptWithVersion
    \/ EncryptNew
    \/ CallDecryptAny
    \/ CallReEncrypt
    \/ CallIsCurrentVersion
    \/ CallRotateDataTask

KeySpec == Init /\ [][KeyNext]_vars

\* --------------------------------------------------------------- listener
\* The calls on one instance's ConnectionManager, one call at a time, with
\* the listener coroutine it starts, step by step (agents.py, lines 63-135).
MaxListenerCalls == 4

\* What may arrive on the channel "agent:events": an event one of the
\* registry's operations published (redis_agent_manager.py, line 108 and its
\* like, always the JSON of a dict), or data that is no JSON.
EventMsg(n) == [kind |-> "event", id |-> n]
GarbageMsg(n) == [kind |-> "garbage", id |-> n]

\* The listener holds its subscription from subscribe() on.
Subscribed == task \in {"loop", "wait", "sleep"}

LisQuiet == UNCHANGED <<store, now, supplied, last, calls, procs, hpc, hloc,
                        sentVars, keyVars>>

\* The listener after a disconnect gave table and flag r (lines 85-88): when
\* the table emptied, the task is cancelled and its subscription is gone;
\* otherwise the coroutine goes on at `next`.
AfterDisconnect(r, next) ==
    /\ active' = r.active
    /\ running' = r.running
    /\ IF running /\ ~r.running
       THEN task' = "none" /\ tasks' = tasks - 1 /\ chan' = <<>>
       ELSE task' = next /\ tasks' = tasks /\ chan' = chan

\* ConnectionManager.connect, lines 69-78.
LConnect(s) ==
    /\ lcalls < MaxListenerCalls
    /\ lcalls' = lcalls + 1
    /\ alive' = alive \cup {s}
    /\ active' = DictSet(active, AgentOf(s), s)
    /\ IF ~running
       THEN running' = TRUE /\ task' = "created" /\ tasks' = tasks + 1
       ELSE UNCHANGED <<running, task, tasks>>
    /\ UNCHANGED <<chan, log>>
    /\ LisQuiet

\* ConnectionManager.disconnect, lines 80-88.
LDisconnect(a) ==
    /\ lcalls < MaxListenerCalls
    /\ lcalls' = lcalls + 1
    /\ AfterDisconnect(Disconnect(active, running, a), task)
    /\ UNCHANGED <<alive, log>>
    /\ LisQuiet

\* The peer of connection s goes away: sends to s fail from now on.
LDrop(s) ==
    /\ lcalls < MaxListenerCalls
    /\ lcalls' = lcalls + 1
    /\ s \in alive
    /\ s \in Table(active)
    /\ alive' = alive \ {s}
    /\ UNCHANGED <<active, running, task, tasks, chan, log>>
    /\ LisQuiet

\* A message is published on the channel; it reaches the subscription the
\* listener holds, and nobody when there is none.
LPublish(m) ==
    /\ lcalls < MaxListenerCalls
    /\ lcalls' = lcalls + 1
    /\ chan' = IF Subscribed THEN Append(chan, m) ELSE chan
    /\ UNCHANGED <<active, running, alive, task, tasks, log>>
    /\ LisQuiet

\* Lines 110-114: the task's first run gets the store and subscribes.
LisSubscribe ==
    /\ task = "created"
    /\ task' = "loop"
    /\ UNCHANGED <<active, running, alive, tasks, chan, log, lcalls>>
    /\ LisQuiet

\* Lines 116-122: `while self._running`, then the wait for a message.
LisLoop ==
    /\ task = "loop"
    /\ task' = IF running THEN "wait" ELSE "none"
    /\ tasks' = IF running THEN tasks ELSE tasks - 1
    /\ UNCHANGED <<active, running, alive, chan, log, lcalls>>
    /\ LisQuiet

\* Lines 128-129: no message within the second; `continue`.
LisTimeout ==
    /\ task = "wait"
    /\ chan = <<>>
    /\ task' = "loop"
    /\ UNCHANGED <<active, running, alive, tasks, chan, log, lcalls>>
    /\ LisQuiet

\* The agent ids whose send fails in a broadcast over table d while the
\* connections `up` have a peer, in the table's order (lines 98-103).
RECURSIVE FailedFrom(_, _, _)
FailedFrom(d, up, k) ==
    IF k > Len(d) THEN <<>>
    ELSE (IF d[k].agent_id # None /\ d[k].ws \notin up
          THEN <<d[k].agent_id>> ELSE <<>>) \o FailedFrom(d, up, k + 1)

\* Lines 122-127 with broadcast, lines 97-106: a well-formed event is sent to
\* every registered connection and the connections whose send failed are
\* disconnected.
LisEvent ==
    /\ task = "wait"
    /\ chan # <<>>
    /\ Head(chan).kind = "event"
    /\ log' = Append(log, [kind |-> "event", id |-> Head(chan).id,
                           out |-> "broadcast",
                           to |-> Table(active) \cap alive])
    /\ LET r == DisconnectAll(active, running, FailedFrom(active, alive, 1))
       IN /\ active' = r.active
          /\ running' = r.running
          /\ IF running /\ ~r.running
             THEN task' = "none" /\ tasks' = tasks - 1 /\ chan' = <<>>
             ELSE task' = "loop" /\ tasks' = tasks /\ chan' = Tail(chan)
    /\ UNCHANGED <<alive, lcalls>>
    /\ LisQuiet

\* A listener whose loop ends with the message it cannot parse.
LisGarbage_Ends ==
    /\ task = "wait"
    /\ chan # <<>>
    /\ Head(chan).kind = "garbage"
    /\ log' = Append(log, [kind |-> "garbage", id |-> Head(chan).id,
                           out |-> "dropped", to |-> {}])
    /\ chan' = <<>>
    /\ task' = "none"
    /\ tasks' = tasks - 1
    /\ UNCHANGED <<active, running, alive, lcalls>>
    /\ LisQuiet

\* Lines 123 and 130-131: json.loads raises on data that is no JSON, the
\* inner handler takes the exception and sleeps a second.
LisGarbage ==
    /\ task = "wait"
    /\ chan # <<>>
    /\ Head(chan).kind = "garbage"
    /\ log' = Append(log, [kind |-> "garbage", id |-> Head(chan).id,
                           out |-> "dropped", to |-> {}])
    /\ chan' = Tail(chan)
    /\ task' = "sleep"
    /\ UNCHANGED <<active, running, alive, tasks, lcalls>>
    /\ LisQuiet

\* Line 131: the sleep is over, back to the head of the loop.
LisWake ==
    /\ task = "sleep"
    /\ task' = "loop"
    /\ UNCHANGED <<active, running, alive, tasks, chan, log, lcalls>>
    /\ LisQuiet

Listener == LisSubscribe \/ LisLoop \/ LisTimeout \/ LisEvent \/ LisGarbage \/ LisWake

ListenerNext ==
    \/ \E s \in AgentSockets : LConnect(s)
    \/ \E a \in Agents : LDisconnect(a)
    \/ \E s \in AgentSockets : LDrop(s)
    \/ LPublish(EventMsg(lcalls + 1))
    \/ LPublish(GarbageMsg(lcalls + 1))
    \/ LisSubscribe
    \/ LisLoop
    \/ LisTimeout
    \/ LisEvent
    \/ LisGarbage
    \/ LisWake

ListenerSpec == Init /\ [][ListenerNext]_vars

\* asyncio runs a coroutine that is ready, and the wait for a message and
\* the sleep both end after a second.
ListenerFairSpec == ListenerSpec /\ WF_vars(Listener)

\* ================================================================== claims
\* A step that is one completed call of operation op.
CallOf(op) == calls' = calls + 1 /\ last'.op = op

\* The candidates of a pool that pass the status and the skills filter.
EligibleIn(pool, req) == {a \in pool : Eligible(a, req)}
MinLoad(S) == CHOOSE m \in {GetLoad(a) : a \in S} : \A a \in S : m <= GetLoad(a)

\* get_all_agents_status (listOnline): the online agents that have a record.
ListOnline == {a \in online : agentHash[a].exists}

\* The skill set an agent gave at login (the default when it gave none).
SuppliedSet(a) ==
    IF supplied[a].given THEN supplied[a].list ELSE {"voice", "whatsapp"}

\* C1: every agent's load counter is >= 0, whatever the interleaving of the
\* store operations of concurrent login, assign and release calls.
C1_LoadNeverNegative == \A a \in Agents : GetLoad(a) >= 0

\* C2: an assign whose pool holds an eligible agent returns an agent whose
\* load, when it was selected, was the least load of the eligible candidates.
C2_LeastConnections ==
    [][(CallOf("assign")
        /\ EligibleIn(CandidatePool(last'.region), last'.req) # {})
       => /\ last'.ret # None
          /\ GetLoad(last'.ret)
               = MinLoad(EligibleIn(CandidatePool(last'.region), last'.req))]_vars

\* C2 witness: the agent returned was chosen over another eligible candidate
\* of the pool that carried a strictly greater load.
C2_Witness ==
    /\ last.op = "assign" /\ last.ret # None
    /\ \E b \in EligibleIn(CandidatePool(last.region), last.req) \ {last.ret} :
            GetLoad(b) > GetLoad(last.ret) - 1

\* C3: every agent's load counter equals the number of active conversation
\* records that name it.
ActiveOf(a) == {c \in Convs : conv[c].exists /\ conv[c].status = "active"
                               /\ conv[c].agent_id = a}
C3_LoadCountsActive == \A a \in Agents : GetLoad(a) = Cardinality(ActiveOf(a))

\* C4: after login the agent is AVAILABLE and listed online; after logout it
\* is OFFLINE (or, never having logged in, has no record at all) and is not
\* listed online.
C4_LastOpDecides ==
    /\ last.op = "login" =>
          /\ statusKey[last.agent] = AVAILABLE
          /\ agentHash[last.agent].status = AVAILABLE
          /\ last.agent \in ListOnline
    /\ last.op = "logout" =>
          /\ IF last.ok
             THEN /\ statusKey[last.agent] = OFFLINE
                  /\ agentHash[last.agent].status = OFFLINE
             ELSE /\ statusKey[last.agent] = None
                  /\ ~agentHash[last.agent].exists
          /\ last.agent \notin ListOnline

\* C4 witness: a logout of an agent that had logged in has just completed.
C4_Witness == last.op = "logout" /\ last.ok /\ calls >= 2

\* C5: an agent is in the online index exactly when its status is not OFFLINE
\* (an agent with no status key has never logged in and counts as OFFLINE).
C5_OnlineIffNotOffline ==
    \A a \in Agents : a \in online <=> statusKey[a] \notin {None, OFFLINE}

\* C6: the agent assign returns is in the online index and AVAILABLE.
C6_AssignedIsOnline ==
    (last.op = "assign" /\ last.ret # None)
    => last.ret \in online /\ statusKey[last.ret] = AVAILABLE

\* C7: with required skills given, the agent returned gave every required
\* skill at login, and an AVAILABLE candidate of the pool that gave them all
\* is never left without an assignment.
C7_SkillsAsSupplied ==
    (last.op = "assign" /\ last.req.given /\ last.req.list # {})
    => /\ last.ret # None => last.req.list \subseteq SuppliedSet(last.ret)
       /\ (\E a \in CandidatePool(last.region) :
              statusKey[a] = AVAILABLE /\ last.req.list \subseteq SuppliedSet(a))
          => last.ret # None

\* C8: assign for a region whose index is empty, while an eligible agent is
\* online, returns an eligible agent of the online pool.
C8_RegionFallback ==
    (/\ last.op = "assign" /\ last.region # None
     /\ regionIdx[last.region] = {}
     /\ EligibleIn(online, last.req) # {})
    => last.ret \in EligibleIn(online, last.req)

\* C8 witness: an assign for a region with an empty index returned an agent
\* that is registered in another region.
C8_Witness ==
    /\ last.op = "assign" /\ last.region # None
    /\ regionIdx[last.region] = {} /\ last.ret # None
    /\ agentHash[last.ret].region \notin {None, last.region}

\* C9: a release repeated right after the same release (of a conversation
\* that was assigned to that agent) succeeds and leaves the agent's load, the
\* conversation's status and the agent's conversations-completed metric as
\* the first release left them.
C9_ReleaseIdempotent ==
    [][(/\ CallOf("release") /\ last.op = "release"
        /\ last'.agent = last.agent /\ last'.conv = last.conv
        /\ conv[last.conv].agent_id = last.agent)
       => /\ last'.ok
          /\ GetLoad(last.agent)' = GetLoad(last.agent)
          /\ conv'[last.conv].status = conv[last.conv].status
          /\ metrics'[last.agent] = metrics[last.agent]]_vars

C11_UnknownAgentNoEffect ==
    [][((CallOf("logout") \/ CallOf("setStatus"))
        /\ ~agentHash[last'.agent].exists)
       => /\ ~last'.ok
          /\ UNCHANGED store]_vars

\* C11 witness: setStatus on an id with no record has just returned false
\* while another agent holds keys in the store.
C11_Witness ==
    /\ last.op = "setStatus" /\ ~last.ok
    /\ ~agentHash[last.agent].exists
    /\ statusKey[last.agent] = None /\ last.agent \notin online
    /\ online # {}

\* A step that is one completed call of operation op of the sentiment API.
SentCallOf(op) == scalls' = scalls + 1 /\ slast'.op = op

RECURSIVE SumSeq(_)
SumSeq(q) == IF q = <<>> THEN 0 ELSE Head(q) + SumSeq(Tail(q))
Abs(x) == IF x < 0 THEN -x ELSE x

\* C12: record with a department code outside the fixed set, or with a score
\* outside [-1, 1], fails, leaves every department's sum, count, cached
\* average and history unchanged, publishes nothing on the channel and sends
\* nothing to any observer.
C12_InvalidRecordNoEffect ==
    [][(/\ SentCallOf("record")
        /\ \/ slast'.department_id \notin PARAGUAY_DEPARTMENTS
           \/ slast'.score < -Unit
           \/ slast'.score > Unit)
       => /\ ~slast'.ok
          /\ UNCHANGED <<sentSum, sentCount, sentCurrent, sentHistory>>
          /\ UNCHANGED sentEvent
          /\ UNCHANGED <<inbox, clients>>]_vars

\* C12 witness: a record with score 1.5 for a known department that holds
\* samples has just failed, with an observer registered and connected.
C12_Witness ==
    /\ slast.op = "record" /\ ~slast.ok
    /\ slast.department_id \in PARAGUAY_DEPARTMENTS /\ slast.score > Unit
    /\ sentCount[slast.department_id] > 0
    /\ \E w \in Sockets : w \in open /\ w \in clients[InstanceOf(w)]

\* C13: the n-th valid record on a department since its last reset returns
\* totalCount = n and the average (sum of the n scores) / n rounded to the
\* nearest 10^-4; scores 0.5 then -0.5 give average 0.0 and count 2.
C13_RunningAverage ==
    (slast.op = "record" /\ slast.ok)
    => LET q == samples[slast.department_id]
           n == Len(q)
       IN /\ n >= 1
          /\ slast.total_count = n
          /\ 2 * Abs(slast.average * n - SumSeq(q)) <= n
          /\ q = <<-5000, 5000>> => slast.average = 0 /\ slast.total_count = 2

\* C13 witness: the third record on a department, the sum of the three scores
\* not being a multiple of three score units.
C13_Witness ==
    /\ slast.op = "record" /\ slast.ok
    /\ Len(samples[slast.department_id]) = 3
    /\ SumSeq(samples[slast.department_id]) % 3 # 0

\* C19: a department's history holds exactly the min(n, MAX_HISTORY) most
\* recent of the n samples recorded since its last reset, newest first.
C19_HistoryBounded ==
    \A d \in PARAGUAY_DEPARTMENTS :
        LET n == Len(samples[d])
            k == IF n < MAX_HISTORY THEN n ELSE MAX_HISTORY
        IN sentHistory[d] = SubSeq(samples[d], 1, k)

\* C19 witness: more than MAX_HISTORY samples were recorded on a department,
\* and the oldest sample kept differs from the newest one dropped.
C19_Witness ==
    \E d \in PARAGUAY_DEPARTMENTS :
        /\ Len(samples[d]) > MAX_HISTORY
        /\ samples[d][MAX_HISTORY] # samples[d][MAX_HISTORY + 1]
        /\ slast.op = "record" /\ slast.ok /\ slast.department_id = d

\* C20: getHistory(d, limit) with limit >= 0 returns at most limit samples,
\* and they are the newest samples of d, newest first.
C20_HistoryLimit ==
    slast.op = "getHistory"
    => /\ Len(slast.history) <= slast.limit
       /\ slast.history
            = SubSeq(sentHistory[slast.department_id], 1, Len(slast.history))

\* C14: the first message an observer connection receives is initial_state:
\* no sentiment_update reaches it earlier, however its handler interleaves
\* with record calls on its instance.
C14_InitialStateFirst ==
    \A w \in Sockets : inbox[w] # <<>> => inbox[w][1].type = "initial_state"

\* The observer w has received the sentiment_update of department d that
\* carries total_count = k.
Delivered(w, d, k) ==
    \E m \in 1..Len(inbox[w]) :
        /\ inbox[w][m].type = "sentiment_update"
        /\ inbox[w][m].department_id = d
        /\ inbox[w][m].total_count = k

\* C15: a sentiment_update produced by a record call on one instance is
\* eventually delivered to every observer registered on the other instance,
\* unless the observer leaves.
C15_CrossInstanceDelivery ==
    \A w \in Sockets, d \in StreamDepartments, k \in 1..MaxStreamCalls :
        [](( /\ sentEvent.type = "sentiment_update"
             /\ sentEvent.department_id = d /\ sentEvent.total_count = k
             /\ sentEvent.origin # InstanceOf(w)
             /\ wpc[w] = "receive" /\ w \in clients[InstanceOf(w)] )
           => <>(w \notin clients[InstanceOf(w)] \/ Delivered(w, d, k)))

Idle(s) ==
    \/ hpc[s] \in {"closed", "done", "crashed"}
    \/ hpc[s] = "receive" /\ s \in alive
\* The agent has a live connection: its peer is there and its handler waits
\* for the peer's messages.
HasLive(a) == \E s \in AgentSockets : AgentOf(s) = a /\ s \in alive /\ hpc[s] = "receive"

\* C16: once every handler of the agent stream is idle, an agent is in the
\* online index, and in the connection table, exactly when it still has a
\* live connection.
C16_PresenceFollowsConnections ==
    (\A s \in AgentSockets : Idle(s))
    => \A a \in Agents :
          /\ a \in online <=> HasLive(a)
          /\ Find(active, a) # 0 <=> HasLive(a)

\* The step in which the broadcast of handler s is over.
BroadcastEnds(s) == hpc[s] = "broadcast" /\ hpc'[s] # "broadcast"

\* C17: a broadcast in which some send fails does not fail itself, reaches
\* every connection that stays registered, and removes from the table the
\* connections whose send failed and no other.
C17_BroadcastSurvivesFailure ==
    [][\A s \in AgentSockets :
        (BroadcastEnds(s) /\ hloc'[s].raised # {})
        => /\ hpc'[s] # "crashed"
           /\ (hloc'[s].began \cap Table(active')) \subseteq hloc'[s].sent
           /\ hloc'[s].raised \cap Table(active') = {}
           /\ (Table(active) \ Table(active')) \subseteq hloc'[s].raised]_vars

\* C21: get_department_sentiment answers an absent average exactly when the
\* department's count is 0, which is when no score has been recorded since
\* the start or since the last reset of the department or of everything;
\* otherwise the average is the sum over the count rounded to four decimals,
\* and total_count is the count in both cases.
C21_RegionAverage ==
    slast.op = "getRegion" =>
        LET d == slast.department_id
            n == Len(samples[d])
        IN /\ slast.average_none <=> sentCount[d] = 0
           /\ sentCount[d] = n
           /\ slast.total_count = sentCount[d]
           /\ ~slast.average_none =>
                  2 * Abs(slast.average * n - SumSeq(samples[d])) <= n
\* A department that had a score recorded and was then reset reads as absent.
C21_Witness ==
    /\ slast.op = "getRegion" /\ slast.average_none
    /\ sentEvent.department_id = slast.department_id

\* C22: a login whose agent id is the empty string fails with a validation
\* error and leaves the store as it was: no agent record, no status key, no
\* load counter, no membership of an index, no event.
C22_EmptyIdRejected ==
    [][last'.op = "login" /\ last'.agent = EmptyId /\ calls' = calls + 1 =>
          /\ ~last'.ok
          /\ UNCHANGED store]_vars

\* C23: a store operation that fails inside a mutating call is tried again,
\* a bounded number of times, before the call gives up and raises; so a call
\* that ends with the store's error has awaited the failing operation more
\* than once.
C23_RetriedBeforeRaise ==
    [][\A p \in Procs :
          pc[p] \in LoginAwaits /\ pc'[p] = "idle" /\ last'.ret = StoreIOError
              => Attempts(p) > 1]_vars

\* C24: an online agent whose last activity lies in the past (its client has
\* gone without a logout) is eventually taken out of the online index and set
\* OFFLINE by the sweep, with no request needed to make that happen.
C24_StaleEventuallyReaped ==
    \A a \in Agents :
        (a \in Stale(0)) ~> (a \notin online /\ statusKey[a] = OFFLINE)

\* The string c begins with the version label v and a colon.
StartsWith(c, v) == Len(c) >= 2 /\ c[1] = Tok(v) /\ c[2] = Colon
\* The text of c before its first colon, for a c that has a colon.
HasColon(c) == \E i \in 1..Len(c) : c[i] = Colon
Label(c) ==
    LET i == CHOOSE k \in 1..Len(c) : c[k] = Colon /\ \A j \in 1..(k - 1) : c[j] # Colon
    IN SubSeq(c, 1, i - 1)
\* c is what the manager makes of a non-empty plaintext under a version of
\* the ring.
SealedBy(c, v) ==
    /\ Len(c) = 3 /\ StartsWith(c, v)
    /\ c[3].ch = "b64" /\ c[3].key = keyring[v] /\ c[3].pt # ""
ValidCipher(c) == \E v \in Versions : SealedBy(c, v)

\* C25: encrypt_with_version of a non-empty plaintext under v1 or v2 gives a
\* ciphertext that begins with that version and that decrypt_any turns back
\* into the plaintext; encrypt_new gives a ciphertext of the current
\* version, v2.
C25_EncryptRoundTrip ==
    /\ (klast.op = "encrypt_with_version" /\ klast.plaintext # ""
            /\ klast.version \in Versions)
          => /\ ~klast.raised
             /\ StartsWith(klast.cipher, klast.version)
             /\ DecryptAny(klast.cipher) = klast.plaintext
    /\ klast.op = "encrypt_new"
          => /\ ~klast.raised
             /\ IsCurrentVersion(klast.cipher)
             /\ klast.plaintext # "" =>
                    /\ StartsWith(klast.cipher, "v2")
                    /\ DecryptAny(klast.cipher) = klast.plaintext
\* A plaintext encrypted under v1 by a manager whose v2 key is another key.
C25_Witness ==
    /\ klast.op = "encrypt_with_version" /\ klast.version = "v1"
    /\ klast.plaintext = "a" /\ keyring["v1"] # keyring["v2"]

\* C26: rotate_data_task turns a list of ciphertexts of configured versions
\* into a list of the same length whose i-th item is of the current version
\* and decrypts to the plaintext of the i-th input; re_encrypt of a v1
\* ciphertext gives a v2 ciphertext of the same plaintext.
C26_RotationKeepsData ==
    /\ (klast.op = "rotate_data_task"
            /\ \A i \in 1..Len(klast.items) : ValidCipher(klast.items[i]))
          => /\ Len(klast.out) = Len(klast.items)
             /\ \A i \in 1..Len(klast.items) :
                   /\ IsCurrentVersion(klast.out[i])
                   /\ StartsWith(klast.out[i], CURRENT_VERSION)
                   /\ DecryptAny(klast.out[i]) = klast.items[i][3].pt
    /\ (klast.op = "re_encrypt" /\ SealedBy(klast.input, "v1"))
          => /\ ~klast.raised
             /\ StartsWith(klast.cipher, "v2")
             /\ DecryptAny(klast.cipher) = klast.input[3].pt
\* A list of a v1 ciphertext and a v2 ciphertext of another plaintext,
\* rotated by a manager with two keys.
C26_Witness ==
    /\ klast.op = "rotate_data_task" /\ Len(klast.items) = 2
    /\ SealedBy(klast.items[1], "v1") /\ SealedBy(klast.items[2], "v2")
    /\ klast.items[1][3].pt # klast.items[2][3].pt
    /\ keyring["v1"] # keyring["v2"]

\* C27: decrypt_any raises nothing; it answers ERROR_DECRYPTION for a string
\* whose label before the colon is not v1 or v2 and for a payload that does
\* not decrypt, and it decrypts a string with no label under the v1 key.
C27_DecryptAnyRejects ==
    klast.op = "decrypt_any" =>
        LET c == klast.input IN
        /\ ~klast.raised
        /\ (HasColon(c) /\ Label(c) \notin {<<Tok(v)>> : v \in Versions})
              => klast.text = ERROR_DECRYPTION
        /\ (Len(c) = 3 /\ \E v \in Versions : StartsWith(c, v) /\ ~SealedBy(c, v))
              => klast.text = ERROR_DECRYPTION
        /\ (Len(c) = 1 /\ c[1].ch = "b64" /\ c[1].key = keyring["v1"])
              => klast.text = c[1].pt

\* C28: when every record call on a department has returned (no reset having
\* been made), the average kept in the hash of current averages, which
\* get_all_sentiments returns, is the rounded sum over count that
\* get_department_sentiment returns.
C28_CacheMatchesAverage ==
    (\A p \in Procs : spc[p] = "idle") =>
        \A d \in StreamDepartments :
            sentCount[d] > 0 => sentCurrent[d] = RegionAverage(sentSum[d], sentCount[d])

\* C29: with record calls running at once on a department that started
\* empty, the sum and the count are at every moment those of the same
\* samples; the calls get counts that differ from one another, each between
\* 1 and the count; and when all have returned the count is the number of
\* calls and the sum the sum of their scores.
C29_PipelineAtomic ==
    \A d \in StreamDepartments :
        /\ sentSum[d] = SumSeq(samples[d])
        /\ sentCount[d] = Len(samples[d])
        /\ \A p \in Procs : spc[p] # "idle" =>
              /\ sloc[p].new_count \in 1..sentCount[d]
              /\ \A q \in Procs \ {p} :
                    spc[q] # "idle" => sloc[q].new_count # sloc[p].new_count
              /\ (slast.op = "record" /\ slast.ok) =>
                    slast.total_count # sloc[p].new_count
        /\ (slast.op = "record" /\ slast.ok) => slast.total_count \in 1..sentCount[d]
        /\ (\A p \in Procs : spc[p] = "idle") => sentCount[d] = scalls
\* Two record calls in flight at once, the second having executed its
\* pipeline before the first wrote its average.
C29_Witness ==
    /\ spc["p1"] = "rec_hset" /\ spc["p2"] = "rec_lpush"
    /\ sloc["p1"].new_count = 1 /\ sloc["p2"].new_count = 2

\* The sum of the load counters.
LoadSum == GetLoad("a1") + GetLoad("a2")
\* The steps of an assign call before, and after, its increment.
BeforeIncr == {"assign_online", "assign_status", "assign_skills", "assign_load"}
AfterIncr == {"assign_touch", "assign_conv", "assign_publish"}

\* C30: with assign calls running at once and no login, logout or release
\* among them, the sum of the load counters grows by one for each call that
\* returns an agent and by nothing else, and the current_connections a call
\* returns is the value its own increment gave. Step by step: the increment
\* of a call adds one to its agent's counter alone and the call keeps that
\* new value until it returns; a call that has incremented returns its
\* agent; a call that returns no agent has not incremented; no other step
\* of a call changes a counter.
C30_NoLostIncrement ==
    [][\A p \in Procs :
          /\ (pc[p] = "assign_incr" /\ pc'[p] # pc[p]) =>
                /\ pc'[p] = "assign_touch"
                /\ LoadSum' = LoadSum + 1
                /\ loc'[p].load = GetLoad(loc[p].sel) + 1
                /\ loc'[p].load = GetLoad(loc[p].sel)'
          /\ (pc[p] \in AfterIncr /\ pc'[p] # pc[p]) =>
                /\ pc'[p] \in AfterIncr \cup {"idle"}
                /\ pc'[p] = "idle" =>
                      /\ last'.op = "assign" /\ last'.ok /\ last'.ret = loc[p].sel
                      /\ loc[p].load \in 1..GetLoad(loc[p].sel)
                /\ pc'[p] # "idle" => loc'[p].load = loc[p].load
          /\ ((pc[p] \in BeforeIncr /\ pc'[p] = "idle")
                 \/ (pc' = pc /\ calls' # calls /\ last'.op = "assign"))
                => ~last'.ok /\ last'.ret = None /\ loadKey' = loadKey
          /\ ((\A q \in Procs : ~(pc[q] = "assign_incr" /\ pc'[q] # pc[q]))
                 /\ (\E q \in Procs : pc[q] # "idle"))
                => loadKey' = loadKey]_vars
\* Two calls have incremented the counter of the same agent and neither has
\* returned yet.
C30_Witness ==
    /\ pc["p1"] \in AfterIncr /\ pc["p2"] \in AfterIncr
    /\ loc["p1"].sel = loc["p2"].sel
    /\ loc["p1"].load # loc["p2"].load
    /\ GetLoad(loc["p1"].sel) = 2

\* C31: while a conversation record is active, no call changes the agent id
\* it holds; a second assign of the same conversation id, with no release in
\* between, does not bind the conversation to another agent.
C31_AgentIdImmutable ==
    [][\A c \in Convs :
          (conv[c].exists /\ conv[c].status = "active")
              => conv'[c].agent_id = conv[c].agent_id]_vars

\* C32: the status of an agent leaves OFFLINE through a login of that agent
\* and through nothing else; a status update on an agent that has logged out
\* does not bring it back.
C32_OfflineLeftByLogin ==
    [][\A a \in Agents :
          (statusKey[a] = OFFLINE /\ statusKey'[a] \in {AVAILABLE, BUSY, BREAK})
              => last'.op = "login" /\ last'.agent = a]_vars

\* C33: after completed logins, logouts and sweeps, a member of a region
\* index is in the online index with a status other than OFFLINE, and the
\* index it is in is that of the region its record holds, so that it is in
\* one region index at most.
C33_RegionIndexConsistent ==
    \A r \in Regions : \A a \in regionIdx[r] :
        /\ a \in online
        /\ statusKey[a] \notin {None, OFFLINE}
        /\ agentHash[a].region = r

\* C34: an assign that returns None has changed no load counter, no agent
\* record and no index, has created or changed no conversation record and
\* has published no event.
C34_AssignNoneNoEffect ==
    [][(calls' = calls + 1 /\ last'.op = "assign" /\ last'.ret = None)
          => UNCHANGED <<agentHash, statusKey, loadKey, metrics, online, regionIdx,
                         conv, lastEvent>>]_vars
\* None returned although an agent is online (it is not AVAILABLE, or lacks
\* a required skill), after an earlier event was published.
C34_Witness ==
    /\ last.op = "assign" /\ last.ret = None
    /\ online # {} /\ lastEvent.type # None

\* C35: a status update on a known agent writes the requested status to the
\* agent's status key and to its record, whatever the status, and leaves the
\* load counters, the online index, the region indices and the conversation
\* records as they were.
C35_SetStatusFrame ==
    [][(calls' = calls + 1 /\ last'.op = "setStatus" /\ last'.ok)
          => /\ statusKey'[last'.agent] = last'.status
             /\ agentHash'[last'.agent].status = last'.status
             /\ UNCHANGED <<loadKey, online, regionIdx, conv>>]_vars
\* An online agent with a conversation assigned has been set OFFLINE.
C35_Witness ==
    /\ last.op = "setStatus" /\ last.ok /\ last.status = OFFLINE
    /\ last.agent \in online /\ GetLoad(last.agent) > 0

\* C36: a sweep run alone logs out the online agents whose last activity is
\* older than the cutoff, and only them: each becomes OFFLINE and is in the
\* online index and in every region index no more, and the status, the
\* index memberships and the load of every other agent stay as they were.
C36_SweepLogsOutStale ==
    [][(calls' = calls + 1 /\ last'.op = "reapStale") =>
          \E t \in Timeouts :
              /\ \A a \in Stale(t) :
                    /\ statusKey'[a] = OFFLINE
                    /\ a \notin online'
                    /\ \A r \in Regions : a \notin regionIdx'[r]
              /\ \A a \in Agents \ Stale(t) :
                    /\ statusKey'[a] = statusKey[a]
                    /\ a \in online' <=> a \in online
                    /\ \A r \in Regions : a \in regionIdx'[r] <=> a \in regionIdx[r]
              /\ loadKey' = loadKey]_vars

Broadcast(n) ==
    \E i \in 1..Len(log) : log[i].id = n /\ log[i].out = "broadcast"
\* Event n waits unread on the listener's subscription.
Pending(n) == \E i \in 1..Len(chan) : chan[i] = EventMsg(n)

Cleared(d) ==
    /\ sentSum'[d] = 0
    /\ sentCount'[d] = 0
    /\ sentHistory'[d] = <<>>
    /\ sentCurrent'[d] = <<>>

\* C39: a reset of department r removes r's sum, count, history and cached
\* average and leaves those of every other department as they were; a reset
\* of everything removes them for every department.
C39_ResetFrame ==
    [][/\ (scalls' = scalls + 1 /\ slast'.op = "reset")
          => /\ Cleared(slast'.department_id)
             /\ \A o \in PARAGUAY_DEPARTMENTS \ {slast'.department_id} :
                   /\ sentSum'[o] = sentSum[o]
                   /\ sentCount'[o] = sentCount[o]
                   /\ sentHistory'[o] = sentHistory[o]
                   /\ sentCurrent'[o] = sentCurrent[o]
       /\ (scalls' = scalls + 1 /\ slast'.op = "resetAll")
          => \A d \in PARAGUAY_DEPARTMENTS : Cleared(d)]_vars
\* A department was reset while another one holds scores, which it kept.
C39_Witness ==
    /\ slast.op = "reset"
    /\ sentCount[slast.department_id] = 0
    /\ sentCurrent[slast.department_id] = <<>>
    /\ \E o \in PARAGUAY_DEPARTMENTS \ {slast.department_id} :
          /\ sentCount[o] > 0
          /\ sentHistory[o] # <<>>
          /\ sentCurrent[o] # <<>>

\* C40: assign for a region whose index has a member returns a member of
\* that index or nothing, never an agent from outside it.
C40_RegionPoolOnly ==
    (/\ last.op = "assign" /\ last.region # None
     /\ regionIdx[last.region] # {})
    => last.ret \in regionIdx[last.region] \cup {None}
\* An assign for a region whose only members are ineligible returned nothing
\* while an eligible agent is online outside the region's index.
C40_Witness ==
    /\ last.op = "assign" /\ last.region # None
    /\ regionIdx[last.region] # {}
    /\ last.ret = None
    /\ EligibleIn(online \ regionIdx[last.region], last.req) # {}

=============================================================================
